---- MODULE Spec2Model ----
(***************************************************************************)
(* HumanSent agents: the per-persona tick engine (agent-tick.ts), the      *)
(* decision parser (llm.ts), the agent_state / agent_ticks / agent_actions *)
(* store (supabase service) and the Slack control commands that write the  *)
(* same agent_state row (slack-control.ts).                                *)
(*                                                                         *)
(* One persona is modelled.  Every step.run of the tick function is one    *)
(* action; a step attempt may throw, or may apply its effects and still be *)
(* reported as failed to the durable-execution substrate, which then runs  *)
(* the step again (at-least-once execution, `retries: 2`).                 *)
(***************************************************************************)
EXTENDS Integers, Sequences, FiniteSets, Bags, TLC

\* ------------------------------------------------------------------------
\* Bounds of the model
\* ------------------------------------------------------------------------
MaxRuns == 2      \* agent/tick events delivered for the persona
MaxConcurrent == 2 \* runs of the tick function that can be in flight together
MaxNow == 2       \* last time slot (two slots per UTC day)
MaxGlitches == 1  \* transient failures: one call throws, one step result is lost
MaxOutages == 1   \* periods in which every call throws
MaxCmds == 1      \* control commands issued

\* ------------------------------------------------------------------------
\* Program constants
\* ------------------------------------------------------------------------
Retries == 2              \* agentTickFunction { retries: 2 }
DailyBudget == 250        \* ENV.dailyBudget default
ColumnDefaultBudget == 100 \* agent_state.budget_remaining default
CommandBudget == 100      \* budget written by the control commands
TickInterval == 1         \* minimum interval, in time slots
SlotsPerDay == 2

Runs == 1..MaxConcurrent
Null == -1

Max(a, b) == IF a >= b THEN a ELSE b

\* The UTC date of a time slot: new Date().toISOString().split('T')[0]
DayOf(t) == t \div SlotsPerDay

\* isBusinessHours(): the first slot of a day is inside the active window
isBusinessHours(t) == t % SlotsPerDay = 0

\* ------------------------------------------------------------------------
\* Addresses and the allow-listed suffix.  An address is the sequence of its
\* parts; endsWith compares the tail of that sequence with the suffix.
\* ------------------------------------------------------------------------
AllowedSuffix == <<"@humansent.co">>

\* Variant: the suffix found anywhere in the address (String.includes)
Includes(s, suffix) ==
    \E i \in 1..Len(s) :
        /\ i + Len(suffix) - 1 <= Len(s)
        /\ SubSeq(s, i, i + Len(suffix) - 1) = suffix

EndsWith(s, suffix) ==
    /\ Len(s) >= Len(suffix)
    /\ SubSeq(s, Len(s) - Len(suffix) + 1, Len(s)) = suffix

AddrMorgan == <<"morgan", "@humansent.co">>
AddrJordan == <<"jordan", "@humansent.co">>
AddrEve == <<"eve", "@evil.com">>
AddrSpoof == <<"eve", "@humansent.co", ".evil.com">>

IsExternal(email) == ~EndsWith(email, AllowedSuffix)

\* allRecipients.filter(email => !email.endsWith('@humansent.co'))
ExternalEmails(action) == SelectSeq(action.to \o action.cc, IsExternal)

\* ------------------------------------------------------------------------
\* Actions the oracle may propose
\* ------------------------------------------------------------------------
ActionTypes == {"send_email", "send_slack_message", "create_task",
                "mark_task_done", "snooze_task", "use_precedent", "no_action"}

Act(type, to, cc, reason) ==
    [type |-> type, to |-> to, cc |-> cc, reason |-> reason, text |-> <<>>,
     channel |-> <<>>]

\* ------------------------------------------------------------------------
\* The text of a channel post: a sequence of pieces, each a run of word
\* characters ([A-Za-z0-9_]) or a single other character
\* ------------------------------------------------------------------------
WordPieces == {"precedent", "Precedent", "PRECEDENT", "ai", "AI", "_bot", "team"}

\* the i flag of the two patterns: letters compare without case
FoldCase(w) ==
    CASE w \in {"Precedent", "PRECEDENT"} -> "precedent"
      [] w = "AI" -> "ai"
      [] OTHER -> w

\* Variant: the patterns without the i flag
MentionsPrecedentExactCase(text) ==
    \/ \E i \in 1..Len(text) :
          /\ text[i] = "@"
          /\ i + 1 <= Len(text) /\ text[i + 1] = "precedent"
          /\ i + 2 <= Len(text) => text[i + 2] \notin WordPieces
    \/ \E i \in 1..Len(text) :
          /\ i + 2 <= Len(text)
          /\ text[i] = "precedent" /\ text[i + 1] = " " /\ text[i + 2] = "ai"

\* /@precedent\b/i.test(text) || /precedent ai/i.test(text)
MentionsPrecedent(text) ==
    \/ \E i \in 1..Len(text) :
          /\ text[i] = "@"
          /\ i + 1 <= Len(text) /\ FoldCase(text[i + 1]) = "precedent"
          /\ i + 2 <= Len(text) => text[i + 2] \notin WordPieces
    \/ \E i \in 1..Len(text) :
          /\ i + 2 <= Len(text)
          /\ FoldCase(text[i]) = "precedent" /\ text[i + 1] = " "
          /\ FoldCase(text[i + 2]) = "ai"

EmailInternal == Act("send_email", <<AddrMorgan>>, <<AddrJordan>>, "")
EmailMixedCc == Act("send_email", <<AddrMorgan>>, <<AddrEve>>, "")
EmailSpoofTo == Act("send_email", <<AddrMorgan, AddrSpoof>>, <<>>, "")
\* action.channel: a name with its leading # sign
SlackPost ==
    [Act("send_slack_message", <<>>, <<>>, "") EXCEPT !.channel = <<"#", "general">>]
SlackAtPrecedent ==
    [SlackPost EXCEPT !.text = <<"team", " ", "@", "Precedent", ".">>]
CreateTask == Act("create_task", <<>>, <<>>, "")
MarkDone == Act("mark_task_done", <<>>, <<>>, "")
NoAction == Act("no_action", <<>>, <<>>, "nothing to do")

\* getActionCost
getActionCost(actionType) ==
    CASE actionType = "send_email" -> 10
      [] actionType = "send_slack_message" -> 5
      [] actionType = "create_task" -> 3
      [] actionType = "mark_task_done" -> 1
      [] actionType = "snooze_task" -> 1
      [] actionType = "use_precedent" -> 5
      [] actionType = "no_action" -> 0

\* The action lists the oracle proposes in this model
Decisions == {
    <<>>,
    <<NoAction>>,
    <<EmailInternal>>,
    <<EmailMixedCc, CreateTask>>,
    <<EmailSpoofTo, EmailInternal>>,
    <<EmailInternal, NoAction>>,
    <<SlackPost, MarkDone>>,
    <<SlackAtPrecedent>> }

\* ------------------------------------------------------------------------
\* The oracle's raw text and parseAgentOutput (llm.ts).  The raw text is a
\* sequence of tokens: a code fence, a brace, prose, the JSON literal null,
\* or one member of a JSON object ("actions" carries the array it holds).
\* ------------------------------------------------------------------------
Tok(t) == [t |-> t, v |-> <<>>]
Fence == Tok("fence")
LBrace == Tok("lbrace")
RBrace == Tok("rbrace")
Prose == Tok("text")
JsonNull == Tok("null")
ReasoningMember == Tok("reasoning")
ActionsMember(acts) == [t |-> "actions", v |-> acts]

MemberKinds == {"actions", "reasoning"}

Indices(raw, kind) == {i \in 1..Len(raw) : raw[i].t = kind}
MinOf(S) == CHOOSE x \in S : \A y \in S : x <= y
MaxOf(S) == CHOOSE x \in S : \A y \in S : x >= y

\* rawResponse.match(/```(?:json)?\s*([\s\S]*?)```/): the text between the
\* first fence and the one after it
FencedBlock(raw) ==
    LET f == Indices(raw, "fence") IN
    IF Cardinality(f) >= 2
    THEN LET i1 == MinOf(f)
             i2 == MinOf(f \ {i1})
         IN  [found |-> TRUE, text |-> SubSeq(raw, i1 + 1, i2 - 1)]
    ELSE [found |-> FALSE, text |-> <<>>]

\* rawResponse.match(/\{[\s\S]*\}/): first opening brace to last closing one
ObjectSubstring(raw) ==
    LET lb == Indices(raw, "lbrace")
        rb == Indices(raw, "rbrace")
    IN  IF lb # {} /\ rb # {} /\ MaxOf(rb) > MinOf(lb)
        THEN [found |-> TRUE, text |-> SubSeq(raw, MinOf(lb), MaxOf(rb))]
        ELSE [found |-> FALSE, text |-> <<>>]

StartsWithBrace(str) == Len(str) >= 1 /\ str[1].t = "lbrace"

\* the string handed to JSON.parse
ExtractJson(raw) ==
    LET fb == FencedBlock(raw)
        jsonStr == IF fb.found THEN fb.text ELSE raw
    IN  IF ~StartsWithBrace(jsonStr) /\ ObjectSubstring(raw).found
        THEN ObjectSubstring(raw).text
        ELSE jsonStr

\* JSON.parse succeeds on the literal null and on one flat object
JsonParses(str) ==
    \/ str = <<JsonNull>>
    \/ /\ Len(str) >= 2
       /\ str[1].t = "lbrace"
       /\ str[Len(str)].t = "rbrace"
       /\ \A i \in 2..(Len(str) - 1) : str[i].t \in MemberKinds

\* ActionSchema: a known discriminant with its required fields
ValidAction(a) ==
    /\ a.type \in ActionTypes
    /\ a.type = "no_action" => a.reason # ""
    /\ a.type = "send_email" =>
          \A i \in 1..Len(a.to \o a.cc) : Len((a.to \o a.cc)[i]) >= 2

\* Variant: any object with an actions member passes
AnyActions(str) ==
    /\ str # <<JsonNull>>
    /\ Indices(str, "actions") # {}

\* AgentOutputSchema.safeParse: an object whose actions member is an array
\* of valid actions (a repeated key keeps its last value)
SchemaAccepts(str) ==
    /\ str # <<JsonNull>>
    /\ Indices(str, "actions") # {}
    /\ LET acts == str[MaxOf(Indices(str, "actions"))].v
       IN  \A i \in 1..Len(acts) : ValidAction(acts[i])

FallbackSchema == <<Act("no_action", <<>>, <<>>, "Failed to parse LLM response")>>
FallbackJson == <<Act("no_action", <<>>, <<>>, "Failed to parse LLM response as JSON")>>

parseAgentOutput(rawResponse) ==
    LET jsonStr == ExtractJson(rawResponse) IN
    IF ~JsonParses(jsonStr) THEN FallbackJson
    ELSE IF ~SchemaAccepts(jsonStr) THEN FallbackSchema
    ELSE jsonStr[MaxOf(Indices(jsonStr, "actions"))].v

\* Raw texts the oracle returns in this model
Plain(d) == <<LBrace, ActionsMember(d), RBrace>>
UnknownType == Act("fly_to_moon", <<>>, <<>>, "")
NoReason == Act("no_action", <<>>, <<>>, "")

WellFormedRaws ==
    {Plain(d) : d \in Decisions} \cup
    { <<Prose, LBrace, ReasoningMember, ActionsMember(<<NoAction>>), RBrace, Prose>>,
      <<Prose, Fence, LBrace, ActionsMember(<<EmailInternal>>), RBrace, Fence>>,
      <<Fence, Prose, Fence, LBrace, ActionsMember(<<NoAction>>), RBrace>> }

MalformedRaws ==
    { <<>>,
      <<Prose>>,
      <<LBrace, Prose, RBrace>>,
      <<LBrace, ActionsMember(<<EmailInternal>>)>>,
      <<LBrace, ActionsMember(<<EmailInternal>>), RBrace, Prose>>,
      <<LBrace, ReasoningMember, RBrace>>,
      <<LBrace, RBrace>>,
      <<JsonNull>>,
      <<LBrace, ActionsMember(<<UnknownType>>), RBrace>>,
      <<LBrace, ActionsMember(<<EmailInternal, NoReason>>), RBrace>>,
      <<Fence, Prose, Fence>> }

RawResponses == WellFormedRaws \cup MalformedRaws

\* ------------------------------------------------------------------------
\* State
\* ------------------------------------------------------------------------
VARIABLES
    now,        \* current time slot
    disabled,   \* the persona is listed in ENV.disabledAgents
    dryRun,     \* DRY_RUN_MODE
    row,        \* the persona's agent_state row, or NoRow
    ticks,      \* agent_ticks: sequence of rows, the tick id is the index
    actionLog,  \* agent_actions: bag of rows
    sent,       \* messages handed to the mail / Slack transport: bag
    run,        \* the runs of agentTickFunction, one per delivered event
    cmd,        \* the control command being executed
    cmds,       \* number of control commands issued
    glitches,   \* number of transient failures so far
    down,       \* the store, the oracle and the transports are unreachable
    outages,    \* number of outages so far
    delivered,  \* number of agent/tick events delivered
    notes,      \* the persona's notes.observations in agent_state
    failing,    \* the context sources whose fetch answers with an error
    channels,   \* names of the channels conversations.list returns
    messages,   \* the messages table: set of rows
    messageIds, \* the transports return an id for what they sent
    fanout, \* the run of agentTickAllFunction: its event and what it sent
    sync, \* the runs of syncSlackMessagesToSupabase: rows built and written
    webhook  \* POST /api/slack/events: environment, last request, answer, events sent

vars == <<now, disabled, dryRun, row, ticks, actionLog, sent, run, cmd, cmds,
          glitches, down, outages, delivered, notes, failing, channels, messages,
          messageIds, fanout, sync, webhook>>

NoRow == [absent |-> TRUE]
NoState == [absent |-> TRUE]

Err(tag, addrs) == [tag |-> tag, addrs |-> addrs]
NoErr == Err("none", <<>>)
Exception == Err("exception", <<>>)

\* event.data.agentId
Persona == "alex"

\* The channels of the workspace
WorkspaceChannels == {"general"}

\* The sources of the context snapshot
Sources == {"emails", "slack", "tasks", "actions"}
NoContext == [s \in Sources |-> "none"]

\* The endpoint POST /api/slack/events before any request, with nothing
\* configured.  A request is the body, the two signature headers (age is
\* Date.now() / 1000 minus x-slack-request-timestamp, in seconds; signature
\* is <<>> when a header is missing) and the event's fields.
NoWebhook ==
    [env |-> [signingSecret |-> "", controlChannelId |-> "", allowedUserIds |-> {}],
     req |-> [type |-> "", signature |-> <<>>, age |-> 0, wellTyped |-> FALSE,
              eventType |-> "", bot |-> FALSE, subtype |-> FALSE,
              channel |-> "", user |-> "", text |-> <<>>],
     status |-> 0, commands |-> <<>>]

MaxSyncs == 2

\* Runs of the channel sync: gather-context of two cycles
Syncers == 1..MaxSyncs

\* No sync has fetched anything yet
NoSync == [c \in Syncers |-> [pc |-> "idle", rows |-> {}]]

\* agent/tick.all: data.force and data.agentIds are optional
NoEvent == [hasForce |-> FALSE, force |-> FALSE, hasAgentIds |-> FALSE, agentIds |-> <<>>]

\* agentTickAllFunction before any event, with DISABLED_AGENTS empty
NoFanOut == [pc |-> "idle", disabledAgents |-> {}, event |-> NoEvent, requests |-> <<>>]

IdleRun == [pc |-> "idle", force |-> FALSE, st |-> NoState, tickId |-> Null,
            dec |-> <<>>, k |-> 0, results |-> <<>>,
            budgetUsed |-> 0, attempts |-> 0, err |-> "", reason |-> "",
            newBudget |-> Null, startBudget |-> Null, oracle |-> "none",
            ctx |-> NoContext, prompts |-> 0, stamp |-> Null]

IdleCmd == [pc |-> "idle", kind |-> "", existing |-> NoState]

\* Rows a persona can have when observation starts: none yet, or a row left
\* by earlier cycles and commands of the same day
StoredRow(budget, active) ==
    [budgetRemaining |-> budget, budgetResetAt |-> 0, isActive |-> active,
     lastTickAt |-> Null, lastTickId |-> Null]

InitRows == {NoRow, StoredRow(8, TRUE), StoredRow(0, TRUE),
             StoredRow(ColumnDefaultBudget, FALSE)}

Init ==
    /\ now = 0
    /\ disabled \in BOOLEAN
    /\ dryRun \in BOOLEAN
    /\ row \in InitRows
    /\ ticks = <<>>
    /\ actionLog = EmptyBag
    /\ sent = EmptyBag
    /\ run = [r \in Runs |-> IdleRun]
    /\ cmd = IdleCmd
    /\ cmds = 0
    /\ glitches = 0
    /\ down = FALSE
    /\ outages = 0
    /\ delivered = 0
    /\ notes = <<>>
    /\ failing = {}
    /\ channels = WorkspaceChannels
    /\ messages = {}
    /\ messageIds = TRUE
    /\ fanout = NoFanOut
    /\ sync = NoSync
    /\ webhook = NoWebhook

\* ------------------------------------------------------------------------
\* The store (supabase service)
\* ------------------------------------------------------------------------
Has(updates, f) == f \in DOMAIN updates

\* upsertAgentState: undefined fields are left out of the payload, so an
\* existing row keeps them and a new row takes the column defaults;
\* is_active is always part of the payload (updates?.isActive ?? true)
upsertAgentState(old, updates, t) ==
    LET base == IF old = NoRow
                THEN [budgetRemaining |-> ColumnDefaultBudget,
                      budgetResetAt |-> DayOf(t), isActive |-> TRUE,
                      lastTickAt |-> Null, lastTickId |-> Null]
                ELSE old
    IN  [budgetRemaining |-> IF Has(updates, "budgetRemaining")
                             THEN updates.budgetRemaining ELSE base.budgetRemaining,
         budgetResetAt |-> base.budgetResetAt,
         isActive |-> IF Has(updates, "isActive") THEN updates.isActive ELSE TRUE,
         lastTickAt |-> IF Has(updates, "lastTickAt")
                        THEN updates.lastTickAt ELSE base.lastTickAt,
         lastTickId |-> IF Has(updates, "lastTickId")
                        THEN updates.lastTickId ELSE base.lastTickId]

\* updateTick: an update of the row with that id
updateTick(tickId, status, error) ==
    [ticks EXCEPT ![tickId] = [status |-> status, error |-> error]]

\* upsertMessages: upsert(rows, { onConflict: 'id' }), a row with a stored id
\* replaces the stored row
upsertMessages(store, rows) ==
    {m \in store : \A n \in rows : n.id # m.id} \cup rows

\* logAgentAction: a plain insert into agent_actions
logAgentAction(tickId, idx, action, success, error) ==
    actionLog (+) SetToBag({[tick |-> tickId, idx |-> idx, type |-> action.type,
                             success |-> success, error |-> error]})

\* ------------------------------------------------------------------------
\* agentTickFunction: one action per step.run
\* ------------------------------------------------------------------------
Set(r, fields) == [f \in DOMAIN run[r] |-> IF f \in DOMAIN fields THEN fields[f] ELSE run[r][f]]

\* A step attempt that is reported as failed.  The substrate runs the step
\* again while attempts remain; afterwards the error is thrown into the
\* function, whose catch block marks the tick failed when one was created.
StepFailed(r) ==
    IF run[r].attempts < Retries
    THEN Set(r, [attempts |-> run[r].attempts + 1])
    ELSE IF run[r].tickId # Null
         THEN Set(r, [pc |-> "fail-tick", attempts |-> 0, err |-> "exception"])
         ELSE Set(r, [pc |-> "crashed", attempts |-> 0, err |-> "exception"])

\* A single transient failure: one call throws, or a step result is lost
Glitch ==
    /\ glitches < MaxGlitches
    /\ glitches' = glitches + 1

\* The attempt throws before it changed anything: the service is down
Throws(r) ==
    /\ down
    /\ run' = [run EXCEPT ![r] = StepFailed(r)]
    /\ UNCHANGED glitches

\* The attempt did its work, but its result did not reach the substrate
Lost(r) ==
    /\ ~down
    /\ Glitch
    /\ run' = [run EXCEPT ![r] = StepFailed(r)]

\* The attempt did its work and the step is done
Done(r, fields) ==
    /\ ~down
    /\ run' = [run EXCEPT ![r] = Set(r, fields)]
    /\ UNCHANGED glitches

Terminal == {"skipped", "skipped-budget", "done", "failed", "crashed"}
InFlight(r) == run[r].pc \notin Terminal \cup {"idle"}

\* Variant: the business-hours check is made for the first event only
StartFirstOnly(force) ==
    IF disabled
    THEN [IdleRun EXCEPT !.pc = "skipped", !.force = force, !.reason = "disabled"]
    ELSE IF ~force /\ ~isBusinessHours(now) /\ delivered = 0
    THEN [IdleRun EXCEPT !.pc = "skipped", !.force = force, !.reason = "outside-hours"]
    ELSE [IdleRun EXCEPT !.pc = "get-state", !.force = force]

\* Lines 63-81: the event data and the checks ahead of the first step
Start(force) ==
    IF disabled
    THEN [IdleRun EXCEPT !.pc = "skipped", !.force = force, !.reason = "disabled"]
    ELSE IF ~force /\ ~isBusinessHours(now)
    THEN [IdleRun EXCEPT !.pc = "skipped", !.force = force, !.reason = "outside-hours"]
    ELSE [IdleRun EXCEPT !.pc = "get-state", !.force = force]

\* An agent/tick event is delivered while no other run of the persona is in
\* flight
Deliver(r) ==
    /\ delivered < MaxRuns
    /\ r = 1
    /\ \A q \in Runs : ~InFlight(q)
    /\ \E force \in BOOLEAN : run' = [run EXCEPT ![r] = Start(force)]
    /\ delivered' = delivered + 1
    /\ UNCHANGED <<webhook, sync, fanout, messageIds, messages, channels, failing, notes, now, disabled, dryRun, row, ticks, actionLog, sent, cmd, cmds,
                   glitches, down, outages>>

\* An agent/tick event is delivered while another run of the persona is in
\* flight (concurrency is limited per function, not per persona)
DeliverOverlapping(r) ==
    /\ delivered < MaxRuns
    /\ ~InFlight(r)
    /\ \E q \in Runs : q < r /\ InFlight(q)
    /\ \A q \in Runs : q < r => InFlight(q)
    /\ \E force \in BOOLEAN : run' = [run EXCEPT ![r] = Start(force)]
    /\ delivered' = delivered + 1
    /\ UNCHANGED <<webhook, sync, fanout, messageIds, messages, channels, failing, notes, now, disabled, dryRun, row, ticks, actionLog, sent, cmd, cmds,
                   glitches, down, outages>>

\* Variant: a forced tick passes the is_active check
AfterStateForcedThrough(r, st) ==
    IF ~st.isActive /\ ~run[r].force
    THEN [pc |-> "skipped", st |-> st, reason |-> "inactive", attempts |-> 0]
    ELSE IF ~run[r].force /\ st.lastTickAt # Null /\ now - st.lastTickAt < TickInterval
    THEN [pc |-> "skipped", st |-> st, reason |-> "interval", attempts |-> 0]
    ELSE [pc |-> "create-tick", st |-> st, attempts |-> 0]

\* Lines 95-111: the checks made once the state is known
AfterState(r, st) ==
    IF ~st.isActive
    THEN [pc |-> "skipped", st |-> st, reason |-> "inactive", attempts |-> 0]
    ELSE IF ~run[r].force /\ st.lastTickAt # Null /\ now - st.lastTickAt < TickInterval
    THEN [pc |-> "skipped", st |-> st, reason |-> "interval", attempts |-> 0]
    ELSE [pc |-> "create-tick", st |-> st, attempts |-> 0]

GetState(r) ==
    /\ run[r].pc = "get-state"
    /\ \/ Done(r, IF row = NoRow THEN [pc |-> "init-state", attempts |-> 0]
                  ELSE AfterState(r, row))
       \/ Throws(r)
    /\ UNCHANGED <<webhook, sync, fanout, messageIds, messages, channels, failing, notes, now, disabled, dryRun, row, ticks, actionLog, sent, cmd, cmds,
                   down, outages, delivered>>

InitState(r) ==
    /\ run[r].pc = "init-state"
    /\ LET new == upsertAgentState(row, [budgetRemaining |-> DailyBudget], now) IN
       \/ /\ row' = new
          /\ Done(r, AfterState(r, new))
       \/ /\ row' = new
          /\ Lost(r)
       \/ /\ Throws(r)
          /\ UNCHANGED row
    /\ UNCHANGED <<webhook, sync, fanout, messageIds, messages, channels, failing, notes, now, disabled, dryRun, ticks, actionLog, sent, cmd, cmds, down, outages, delivered>>

\* Variant: no budget check after the rollover gate
AfterTickUngated(st) ==
    IF st.budgetResetAt # DayOf(now) THEN "reset-budget" ELSE "gather-context"

\* Variant: the interval is looked at once the tick row exists
AfterTickInterval(st) ==
    IF st.lastTickAt # Null /\ now - st.lastTickAt < TickInterval THEN "skipped"
    ELSE IF st.budgetResetAt # DayOf(now) THEN "reset-budget"
    ELSE IF st.budgetRemaining <= 0 THEN "update-tick-no-budget"
    ELSE "gather-context"

\* Lines 117-137: rollover and budget checks made on the state in hand
AfterTick(st) ==
    IF st.budgetResetAt # DayOf(now) THEN "reset-budget"
    ELSE IF st.budgetRemaining <= 0 THEN "update-tick-no-budget"
    ELSE "gather-context"

AfterReset(st) ==
    IF st.budgetRemaining <= 0 THEN "update-tick-no-budget" ELSE "gather-context"

NewTick == [status |-> "running", error |-> ""]

CreateTick(r) ==
    /\ run[r].pc = "create-tick"
    /\ \/ /\ ticks' = Append(ticks, NewTick)
          /\ Done(r, [pc |-> AfterTick(run[r].st), tickId |-> Len(ticks) + 1,
                      attempts |-> 0, startBudget |-> run[r].st.budgetRemaining])
       \/ /\ ticks' = Append(ticks, NewTick)
          /\ Lost(r)
       \/ /\ Throws(r)
          /\ UNCHANGED ticks
    /\ UNCHANGED <<webhook, sync, fanout, messageIds, messages, channels, failing, notes, now, disabled, dryRun, row, actionLog, sent, cmd, cmds, down, outages, delivered>>

ResetBudget(r) ==
    /\ run[r].pc = "reset-budget"
    /\ LET new == upsertAgentState(row, [budgetRemaining |-> DailyBudget], now) IN
       \/ /\ row' = new
          /\ Done(r, [pc |-> AfterReset(new), st |-> new, attempts |-> 0,
                      startBudget |-> new.budgetRemaining])
       \/ /\ row' = new
          /\ Lost(r)
       \/ /\ Throws(r)
          /\ UNCHANGED row
    /\ UNCHANGED <<webhook, sync, fanout, messageIds, messages, channels, failing, notes, now, disabled, dryRun, ticks, actionLog, sent, cmd, cmds, down, outages, delivered>>

UpdateTickNoBudget(r) ==
    /\ run[r].pc = "update-tick-no-budget"
    /\ LET t == updateTick(run[r].tickId, "skipped", "Daily budget exhausted") IN
       \/ /\ ticks' = t
          /\ Done(r, [pc |-> "skipped-budget", reason |-> "budget", attempts |-> 0])
       \/ /\ ticks' = t
          /\ Lost(r)
       \/ /\ Throws(r)
          /\ UNCHANGED ticks
    /\ UNCHANGED <<webhook, sync, fanout, messageIds, messages, channels, failing, notes, now, disabled, dryRun, row, actionLog, sent, cmd, cmds, down, outages, delivered>>

\* gather-context: the mail and Slack fetches sit in a try/catch that leaves
\* the list empty; db.getOpenTasks and db.getRecentActions are awaited
\* without one, so their error fails the step
CaughtSources == {"emails", "slack"}

Gathered == [s \in Sources |-> IF s \in failing THEN "empty" ELSE "fetched"]

GatherContext(r) ==
    /\ run[r].pc = "gather-context"
    /\ \/ /\ failing \subseteq CaughtSources
          /\ Done(r, [pc |-> "update-tick-context", ctx |-> Gathered, attempts |-> 0])
       \/ /\ ~down
          /\ ~(failing \subseteq CaughtSources)
          /\ run' = [run EXCEPT ![r] = StepFailed(r)]
          /\ UNCHANGED glitches
       \/ Throws(r)
    /\ UNCHANGED <<webhook, sync, fanout, messageIds, messages, channels, failing, notes, now, disabled, dryRun, row, ticks, actionLog, sent, cmd, cmds,
                   down, outages, delivered>>

\* update-tick-context and update-tick-llm write counters only; the status
\* column is not part of their payload
UpdateTickContext(r) ==
    /\ run[r].pc = "update-tick-context"
    /\ \/ Done(r, [pc |-> "llm-decision", attempts |-> 0])
       \/ Throws(r)
    /\ UNCHANGED <<webhook, sync, fanout, messageIds, messages, channels, failing, notes, now, disabled, dryRun, row, ticks, actionLog, sent, cmd, cmds,
                   down, outages, delivered>>

\* llm-decision: getAgentDecision.  The call to the oracle either answers
\* with some text, which parseAgentOutput turns into the action list, or
\* throws (API error, timeout); nothing in getAgentDecision catches that.
\* prompts counts the times client.messages.create was given the two
\* prompts of the cycle; while the service is down the request does not
\* get there.
OracleKind(rawResponse) ==
    IF rawResponse \in MalformedRaws THEN "malformed" ELSE "answered"

LlmDecision(r) ==
    /\ run[r].pc = "llm-decision"
    /\ \/ \E rawResponse \in RawResponses :
            Done(r, [pc |-> "update-tick-llm",
                     dec |-> parseAgentOutput(rawResponse),
                     oracle |-> OracleKind(rawResponse), attempts |-> 0,
                     prompts |-> run[r].prompts + 1])
       \/ /\ ~down
          /\ Glitch
          /\ run' = [run EXCEPT ![r] = [StepFailed(r) EXCEPT !.oracle = "timeout",
                                                             !.prompts = @ + 1]]
       \/ /\ down
          /\ run' = [run EXCEPT ![r] = [StepFailed(r) EXCEPT !.oracle = "timeout"]]
          /\ UNCHANGED glitches
    /\ UNCHANGED <<webhook, sync, fanout, messageIds, messages, channels, failing, notes, now, disabled, dryRun, row, ticks, actionLog, sent, cmd, cmds,
                   down, outages, delivered>>

UpdateTickLlm(r) ==
    /\ run[r].pc = "update-tick-llm"
    /\ \/ Done(r, [pc |-> IF Len(run[r].dec) = 0 THEN "update-state" ELSE "execute",
                   k |-> 1, attempts |-> 0])
       \/ Throws(r)
    /\ UNCHANGED <<webhook, sync, fanout, messageIds, messages, channels, failing, notes, now, disabled, dryRun, row, ticks, actionLog, sent, cmd, cmds,
                   down, outages, delivered>>

\* ------------------------------------------------------------------------
\* executeAction
\* ------------------------------------------------------------------------
MessageTypes == {"send_email", "send_slack_message", "use_precedent"}

\* Variant: a name that is not found is used as the channel id
getChannelIdByNameOrName(channelName) == channelName[2]

\* slack.getChannelIdByName: the id of the channel of that name, or null
\* (the empty string here: `channel?.id || null`, tested with !resolved)
getChannelIdByName(channelName) ==
    IF channelName[2] \in channels THEN channelName[2] ELSE ""

\* if (action.channel.startsWith('#')) { ... if (!resolved) throw ... }
Unresolved(action) ==
    /\ action.type = "send_slack_message"
    /\ action.channel[1] = "#"
    /\ getChannelIdByName(action.channel) = ""

\* The two guardrails that log a failure and return before any transport
\* is called: recipients outside the allow-list, @Precedent in a channel
IsBlocked(action) ==
    \/ action.type = "send_email" /\ Len(ExternalEmails(action)) > 0
    \/ action.type = "send_slack_message" /\ MentionsPrecedent(action.text)

\* Variant: the transports are called whatever the dry-run flag says
CallsIgnoringDryRun(action) ==
    IF Unresolved(action) THEN <<>>
    ELSE IF IsBlocked(action) THEN <<"log">>
    ELSE IF action.type \in MessageTypes THEN <<"dispatch", "writeback", "log">>
    ELSE IF action.type = "no_action" THEN <<"log">>
    ELSE <<"task", "log">>

\* The calls executeAction makes for an action, in order, inside its try;
\* none when the channel lookup ends in `Channel not found`
Calls(action) ==
    IF Unresolved(action) THEN <<>>
    ELSE IF IsBlocked(action) THEN <<"log">>
    ELSE IF action.type \in MessageTypes
         THEN IF dryRun THEN <<"log">> ELSE <<"dispatch", "writeback", "log">>
    ELSE IF action.type = "no_action" THEN <<"log">>
    ELSE <<"task", "log">>

\* What is logged and returned when none of the calls throws: by the try
\* block, or by the catch block for a channel that was not found
Outcome(action) ==
    IF Unresolved(action)
    THEN [success |-> FALSE, error |-> Err("CHANNEL_NOT_FOUND", <<>>)]
    ELSE IF IsBlocked(action) /\ action.type = "send_email"
    THEN [success |-> FALSE, error |-> Err("BLOCKED", ExternalEmails(action))]
    ELSE IF IsBlocked(action)
    THEN [success |-> FALSE, error |-> Err("PRECEDENT_VIA_DM", <<>>)]
    ELSE IF action.type \in MessageTypes /\ dryRun
    THEN [success |-> FALSE, error |-> Err("DRY_RUN", <<>>)]
    ELSE [success |-> TRUE, error |-> NoErr]

\* The calls completed when call number failAt throws (0: none throws)
Reached(action, failAt, call) ==
    \E i \in 1..Len(Calls(action)) :
        /\ Calls(action)[i] = call
        /\ failAt = 0 \/ i < failAt

\* Variant: the cost accrued whatever the result
AccrueAlways(budgetUsed, action, result) == budgetUsed + getActionCost(action.type)

\* if (result.success) budgetUsed += getActionCost(action.type)
Accrue(budgetUsed, action, result) ==
    IF result.success THEN budgetUsed + getActionCost(action.type) ELSE budgetUsed

\* Variant: a failed result ends the cycle
ReturnedOrAborted(r, action, result) ==
    IF result.success
    THEN Set(r, [results |-> Append(run[r].results, result),
                 budgetUsed |-> Accrue(run[r].budgetUsed, action, result),
                 k |-> run[r].k + 1,
                 pc |-> IF run[r].k = Len(run[r].dec) THEN "update-state" ELSE "execute",
                 attempts |-> 0])
    ELSE Set(r, [pc |-> "fail-tick", attempts |-> 0, err |-> "exception"])

\* Variant: the loop passes over the action after the one just executed
ReturnedSkipping(r, action, result) ==
    Set(r, [results |-> Append(run[r].results, result),
            budgetUsed |-> Accrue(run[r].budgetUsed, action, result),
            k |-> run[r].k + 2,
            pc |-> IF run[r].k + 1 >= Len(run[r].dec) THEN "update-state" ELSE "execute",
            attempts |-> 0])

\* The run after executeAction returned result for action k
Returned(r, action, result) ==
    Set(r, [results |-> Append(run[r].results, result),
            budgetUsed |-> Accrue(run[r].budgetUsed, action, result),
            k |-> run[r].k + 1,
            pc |-> IF run[r].k = Len(run[r].dec) THEN "update-state" ELSE "execute",
            attempts |-> 0])

\* Variant: nothing is handed over when the cost exceeds what is left
DispatchedIfAffordable(r, action, failAt) ==
    IF /\ Reached(action, failAt, "dispatch")
       /\ getActionCost(action.type) <= run[r].st.budgetRemaining - run[r].budgetUsed
    THEN sent (+) SetToBag({[tick |-> run[r].tickId, idx |-> run[r].k]})
    ELSE sent

\* The transport accepted the message of action k before call failAt threw
Dispatched(r, action, failAt) ==
    IF Reached(action, failAt, "dispatch")
    THEN sent (+) SetToBag({[tick |-> run[r].tickId, idx |-> run[r].k]})
    ELSE sent

\* result.messageId of gmail.sendEmail (response.data.id || '') and result.ts
\* of slack.postMessage (result.ts || ''): <<>> is the empty id
messageId(r) == IF messageIds THEN <<run[r].tickId, run[r].k>> ELSE <<>>

\* Variant: the row is written without the sender
WrittenBackUnattributed(r, action, failAt) ==
    IF /\ Reached(action, failAt, "writeback")
       /\ action.type = "send_email" => messageId(r) # <<>>
    THEN upsertMessages(messages, {[id |-> messageId(r), fromAgent |-> "",
                                    fromExternal |-> ""]})
    ELSE messages

\* db.upsertConversation and db.upsertMessages after the send: one row per
\* message id; the mail branch writes nothing when the transport gave no id
WrittenBack(r, action, failAt) ==
    IF /\ Reached(action, failAt, "writeback")
       /\ action.type = "send_email" => messageId(r) # <<>>
    THEN upsertMessages(messages, {[id |-> messageId(r), fromAgent |-> Persona,
                                    fromExternal |-> ""]})
    ELSE messages

\* One attempt of the step `execute-<type>` for action k of the list.
\* failAt is the call inside the try that throws (0: none).
ExecuteAction(r) ==
    /\ run[r].pc = "execute"
    /\ LET action == run[r].dec[run[r].k]
           tid == run[r].tickId
           k == run[r].k
       IN \/ \* every call succeeds
             /\ ~down
             /\ sent' = Dispatched(r, action, 0)
             /\ messages' = WrittenBack(r, action, 0)
             /\ actionLog' = logAgentAction(tid, k, action, Outcome(action).success,
                                            Outcome(action).error)
             /\ \/ /\ run' = [run EXCEPT ![r] = Returned(r, action, Outcome(action))]
                   /\ UNCHANGED glitches
                \/ /\ Glitch
                   /\ run' = [run EXCEPT ![r] = StepFailed(r)]
             /\ UNCHANGED <<down, outages>>
          \/ \* one call throws; the catch block logs the failure and returns it
             /\ ~down
             /\ Glitch
             /\ \E failAt \in 1..Len(Calls(action)) :
                  /\ sent' = Dispatched(r, action, failAt)
                  /\ messages' = WrittenBack(r, action, failAt)
                  /\ actionLog' = logAgentAction(tid, k, action, FALSE, Exception)
                  /\ run' = [run EXCEPT ![r] =
                        Returned(r, action, [success |-> FALSE, error |-> Exception])]
             /\ UNCHANGED <<down, outages>>
          \/ \* the service goes down at one call: the logAgentAction of the
             \* catch block throws as well and the step fails
             /\ ~down
             /\ outages < MaxOutages
             /\ \E failAt \in 1..Len(Calls(action)) :
                  /\ sent' = Dispatched(r, action, failAt)
                  /\ messages' = WrittenBack(r, action, failAt)
             /\ down' = TRUE
             /\ outages' = outages + 1
             /\ run' = [run EXCEPT ![r] = StepFailed(r)]
             /\ UNCHANGED <<actionLog, glitches>>
          \/ \* channel not found, and the logAgentAction of the catch block
             \* throws: the step fails
             /\ ~down
             /\ Unresolved(action)
             /\ Glitch
             /\ run' = [run EXCEPT ![r] = StepFailed(r)]
             /\ UNCHANGED <<sent, messages, actionLog, down, outages>>
          \/ \* the service is down: the first call and the catch block throw
             /\ Throws(r)
             /\ UNCHANGED <<sent, messages, actionLog, down, outages>>
    /\ UNCHANGED <<webhook, sync, fanout, messageIds, channels, failing, notes, now, disabled, dryRun, row, ticks, cmd, cmds, delivered>>

\* ------------------------------------------------------------------------
\* State update and the end of the cycle
\* ------------------------------------------------------------------------
\* Variant: the difference without the floor at 0
Unclamped(budgetRemaining, budgetUsed) == budgetRemaining - budgetUsed

\* const newBudget = Math.max(0, state.budgetRemaining - budgetUsed)
NewBudget(budgetRemaining, budgetUsed) == Max(0, budgetRemaining - budgetUsed)

UpdateState(r) ==
    /\ run[r].pc = "update-state"
    /\ LET newBudget == NewBudget(run[r].st.budgetRemaining, run[r].budgetUsed)
           new == upsertAgentState(row, [lastTickAt |-> now, lastTickId |-> run[r].tickId,
                                         budgetRemaining |-> newBudget], now)
       IN \/ /\ row' = new
             /\ Done(r, [pc |-> "complete-tick", newBudget |-> newBudget, attempts |-> 0])
          \/ /\ row' = new
             /\ ~down
             /\ Glitch
             /\ run' = [run EXCEPT ![r] = [StepFailed(r) EXCEPT !.newBudget = newBudget]]
          \/ /\ Throws(r)
             /\ UNCHANGED row
    /\ UNCHANGED <<webhook, sync, fanout, messageIds, messages, channels, failing, notes, now, disabled, dryRun, ticks, actionLog, sent, cmd, cmds, down, outages, delivered>>

CompleteTick(r) ==
    /\ run[r].pc = "complete-tick"
    /\ LET t == updateTick(run[r].tickId, "completed", "") IN
       \/ /\ ticks' = t
          /\ Done(r, [pc |-> "done", attempts |-> 0])
       \/ /\ ticks' = t
          /\ Lost(r)
       \/ /\ Throws(r)
          /\ UNCHANGED ticks
    /\ UNCHANGED <<webhook, sync, fanout, messageIds, messages, channels, failing, notes, now, disabled, dryRun, row, actionLog, sent, cmd, cmds, down, outages, delivered>>

\* The fail-tick step of the catch block; the error is re-thrown after it.
\* When fail-tick itself keeps failing, its error leaves the function and the
\* tick row stays as it is.
FailTickFailed(r) ==
    IF run[r].attempts < Retries
    THEN Set(r, [attempts |-> run[r].attempts + 1])
    ELSE Set(r, [pc |-> "crashed", attempts |-> 0])

FailTick(r) ==
    /\ run[r].pc = "fail-tick"
    /\ LET t == updateTick(run[r].tickId, "failed", run[r].err) IN
       \/ /\ ticks' = t
          /\ Done(r, [pc |-> "failed", attempts |-> 0])
       \/ /\ ticks' = t
          /\ ~down
          /\ Glitch
          /\ run' = [run EXCEPT ![r] = FailTickFailed(r)]
       \/ /\ down
          /\ run' = [run EXCEPT ![r] = FailTickFailed(r)]
          /\ UNCHANGED <<ticks, glitches>>
    /\ UNCHANGED <<webhook, sync, fanout, messageIds, messages, channels, failing, notes, now, disabled, dryRun, row, actionLog, sent, cmd, cmds, down, outages, delivered>>

\* ------------------------------------------------------------------------
\* Outages: while the service is down every call of a step throws
\* ------------------------------------------------------------------------
OutageBegins ==
    /\ ~down
    /\ outages < MaxOutages
    /\ down' = TRUE
    /\ outages' = outages + 1
    /\ UNCHANGED <<webhook, sync, fanout, messageIds, messages, channels, failing, notes, now, disabled, dryRun, row, ticks, actionLog, sent, run, cmd, cmds,
                   glitches, delivered>>

OutageEnds ==
    /\ down
    /\ down' = FALSE
    /\ UNCHANGED <<webhook, sync, fanout, messageIds, messages, channels, failing, notes, now, disabled, dryRun, row, ticks, actionLog, sent, run, cmd, cmds,
                   glitches, outages, delivered>>

\* ------------------------------------------------------------------------
\* Control commands (slack-control.ts): pause, resume, budget reset <agent>
\* ------------------------------------------------------------------------
CommandKinds == {"pause", "resume", "budget-reset"}

\* The command arrives; ensureAllAgentRowsExist reads the row
CmdRead ==
    /\ cmd.pc = "idle"
    /\ cmds < MaxCmds
    /\ \E kind \in CommandKinds :
         cmd' = [pc |-> "ensure", kind |-> kind, existing |-> row]
    /\ cmds' = cmds + 1
    /\ UNCHANGED <<webhook, sync, fanout, messageIds, messages, channels, failing, notes, now, disabled, dryRun, row, ticks, actionLog, sent, run, glitches, down, outages, delivered>>

\* ensureAllAgentRowsExist writes back what it read (defaults when absent)
EnsureUpdates(existing) ==
    [budgetRemaining |-> IF existing = NoRow THEN CommandBudget
                         ELSE existing.budgetRemaining,
     isActive |-> IF existing = NoRow THEN TRUE ELSE existing.isActive]

CmdEnsure ==
    /\ cmd.pc = "ensure"
    /\ row' = upsertAgentState(row, EnsureUpdates(cmd.existing), now)
    /\ cmd' = [cmd EXCEPT !.pc = "apply"]
    /\ UNCHANGED <<webhook, sync, fanout, messageIds, messages, channels, failing, notes, now, disabled, dryRun, ticks, actionLog, sent, run, cmds, glitches, down, outages, delivered>>

\* setAllAgentsActiveInDb(isActive)
setAllAgentsActiveInDb(old, isActive, t) == upsertAgentState(old, [isActive |-> isActive], t)

\* resetAgentBudget(target, 100)
resetAgentBudget(old, budget) == [old EXCEPT !.budgetRemaining = budget]

CmdApply ==
    /\ cmd.pc = "apply"
    /\ row' = CASE cmd.kind = "pause" -> setAllAgentsActiveInDb(row, FALSE, now)
                [] cmd.kind = "resume" -> setAllAgentsActiveInDb(row, TRUE, now)
                [] cmd.kind = "budget-reset" -> resetAgentBudget(row, CommandBudget)
    /\ cmd' = IdleCmd
    /\ UNCHANGED <<webhook, sync, fanout, messageIds, messages, channels, failing, notes, now, disabled, dryRun, ticks, actionLog, sent, run, cmds, glitches, down, outages, delivered>>

\* ------------------------------------------------------------------------
\* Time
\* ------------------------------------------------------------------------
\* Time is observed between the cycles of the persona
AdvanceTime ==
    /\ now < MaxNow
    /\ \A r \in Runs : ~InFlight(r)
    /\ now' = now + 1
    /\ UNCHANGED <<webhook, sync, fanout, messageIds, messages, channels, failing, notes, disabled, dryRun, row, ticks, actionLog, sent, run, cmd, cmds, glitches, down, outages, delivered>>

CycleStep(r) ==
    \/ GetState(r)
    \/ InitState(r)
    \/ CreateTick(r)
    \/ ResetBudget(r)
    \/ UpdateTickNoBudget(r)
    \/ GatherContext(r)
    \/ UpdateTickContext(r)
    \/ LlmDecision(r)
    \/ UpdateTickLlm(r)
    \/ ExecuteAction(r)
    \/ UpdateState(r)
    \/ CompleteTick(r)

TickStep(r) ==
    \/ CycleStep(r)
    \/ FailTick(r)

\* Cycles of the persona one after the other, with failing calls, lost step
\* results and outages
Next ==
    \/ \E r \in Runs : Deliver(r)
    \/ \E r \in Runs : TickStep(r)
    \/ OutageBegins
    \/ OutageEnds
    \/ AdvanceTime

Spec == Init /\ [][Next]_vars

\* A service that does not fail: no outage and no transient failure is left
InitReliable ==
    /\ now = 0
    /\ disabled \in BOOLEAN
    /\ dryRun \in BOOLEAN
    /\ row \in InitRows
    /\ ticks = <<>>
    /\ actionLog = EmptyBag
    /\ sent = EmptyBag
    /\ run = [r \in Runs |-> IdleRun]
    /\ cmd = IdleCmd
    /\ cmds = 0
    /\ glitches = MaxGlitches
    /\ down = FALSE
    /\ outages = MaxOutages
    /\ delivered = 0
    /\ notes = <<>>
    /\ failing = {}
    /\ channels = WorkspaceChannels
    /\ messages = {}
    /\ messageIds = TRUE
    /\ fanout = NoFanOut
    /\ sync = NoSync
    /\ webhook = NoWebhook

\* Cycles of the persona that may overlap
NextConcurrent ==
    \/ \E r \in Runs : Deliver(r)
    \/ \E r \in Runs : DeliverOverlapping(r)
    \/ \E r \in Runs : CycleStep(r)
    \/ AdvanceTime

SpecConcurrent == InitReliable /\ [][NextConcurrent]_vars

\* Cycles of the persona one after the other, interleaved with the control
\* commands of an operator
NextControl ==
    \/ \E r \in Runs : Deliver(r)
    \/ \E r \in Runs : CycleStep(r)
    \/ CmdRead
    \/ CmdEnsure
    \/ CmdApply
    \/ AdvanceTime

SpecControl == InitReliable /\ [][NextControl]_vars

\* Cycles of the persona one after the other while at most one source of the
\* context keeps answering with an error; everything else works
FailingSources == {{}} \cup {{s} : s \in Sources}

InitContext ==
    /\ now = 0
    /\ disabled = FALSE
    /\ dryRun \in BOOLEAN
    /\ row \in InitRows
    /\ ticks = <<>>
    /\ actionLog = EmptyBag
    /\ sent = EmptyBag
    /\ run = [r \in Runs |-> IdleRun]
    /\ cmd = IdleCmd
    /\ cmds = 0
    /\ glitches = MaxGlitches
    /\ down = FALSE
    /\ outages = MaxOutages
    /\ delivered = 0
    /\ notes = <<>>
    /\ failing \in FailingSources
    /\ channels = WorkspaceChannels
    /\ messages = {}
    /\ messageIds = TRUE
    /\ fanout = NoFanOut
    /\ sync = NoSync
    /\ webhook = NoWebhook

NextContext ==
    \/ \E r \in Runs : Deliver(r)
    \/ \E r \in Runs : TickStep(r)
    \/ AdvanceTime

SpecContext == InitContext /\ [][NextContext]_vars

\* Cycles of the persona, with a transient failure of one call or step, in
\* a workspace that has none of the channels the oracle names
InitChannels ==
    /\ now = 0
    /\ disabled = FALSE
    /\ dryRun = FALSE
    /\ row \in {NoRow, StoredRow(0, TRUE)}
    /\ ticks = <<>>
    /\ actionLog = EmptyBag
    /\ sent = EmptyBag
    /\ run = [r \in Runs |-> IdleRun]
    /\ cmd = IdleCmd
    /\ cmds = 0
    /\ glitches = 0
    /\ down = FALSE
    /\ outages = MaxOutages
    /\ delivered = 0
    /\ notes = <<>>
    /\ failing = {}
    /\ channels = {}
    /\ messages = {}
    /\ messageIds = TRUE
    /\ fanout = NoFanOut
    /\ sync = NoSync
    /\ webhook = NoWebhook

NextChannels ==
    \/ \E r \in Runs : Deliver(r)
    \/ \E r \in Runs : CycleStep(r)
    \/ AdvanceTime

SpecChannels == InitChannels /\ [][NextChannels]_vars

\* A workspace whose transports may answer a send without an id
InitDelivery ==
    /\ now = 0
    /\ disabled = FALSE
    /\ dryRun = FALSE
    /\ row \in {NoRow, StoredRow(0, TRUE)}
    /\ ticks = <<>>
    /\ actionLog = EmptyBag
    /\ sent = EmptyBag
    /\ run = [r \in Runs |-> IdleRun]
    /\ cmd = IdleCmd
    /\ cmds = 0
    /\ glitches = 0
    /\ down = FALSE
    /\ outages = MaxOutages
    /\ delivered = 0
    /\ notes = <<>>
    /\ failing = {}
    /\ channels = WorkspaceChannels
    /\ messages = {}
    /\ messageIds \in BOOLEAN
    /\ fanout = NoFanOut
    /\ sync = NoSync
    /\ webhook = NoWebhook

SpecDelivery == InitDelivery /\ [][NextChannels]_vars

\* ------------------------------------------------------------------------
\* The update-state call seen from the store: the function evaluates
\* `new Date()` and sends the upsert, the store applies it later.  Cycles of
\* the persona may overlap and time passes while they run.
\* ------------------------------------------------------------------------
\* The payload of the upsert is built: lastTickAt is the caller's clock
UpdateStateCall(r) ==
    /\ run[r].pc = "update-state"
    /\ ~down
    /\ run' = [run EXCEPT ![r] = Set(r, [pc |-> "update-state-sent", stamp |-> now])]
    /\ UNCHANGED <<webhook, sync, fanout, messageIds, messages, channels, failing, notes, now, disabled, dryRun, row, ticks, actionLog, sent, cmd, cmds,
                   glitches, down, outages, delivered>>

\* The store applies the upsert
UpdateStateLands(r) ==
    /\ run[r].pc = "update-state-sent"
    /\ LET newBudget == NewBudget(run[r].st.budgetRemaining, run[r].budgetUsed) IN
       /\ row' = upsertAgentState(row, [lastTickAt |-> run[r].stamp,
                                        lastTickId |-> run[r].tickId,
                                        budgetRemaining |-> newBudget], now)
       /\ Done(r, [pc |-> "complete-tick", newBudget |-> newBudget, attempts |-> 0])
    /\ UNCHANGED <<webhook, sync, fanout, messageIds, messages, channels, failing, notes, now, disabled, dryRun, ticks, actionLog, sent, cmd, cmds, down, outages, delivered>>

\* Time passes, also while cycles are in flight
ClockTicks ==
    /\ now < MaxNow
    /\ now' = now + 1
    /\ UNCHANGED <<webhook, sync, fanout, messageIds, messages, channels, failing, notes, disabled, dryRun, row, ticks, actionLog, sent, run, cmd, cmds, glitches, down, outages, delivered>>

InitClock ==
    /\ now = 0
    /\ disabled = FALSE
    /\ dryRun = TRUE
    /\ row \in {NoRow, StoredRow(8, TRUE), StoredRow(0, TRUE)}
    /\ ticks = <<>>
    /\ actionLog = EmptyBag
    /\ sent = EmptyBag
    /\ run = [r \in Runs |-> IdleRun]
    /\ cmd = IdleCmd
    /\ cmds = 0
    /\ glitches = MaxGlitches
    /\ down = FALSE
    /\ outages = MaxOutages
    /\ delivered = 0
    /\ notes = <<>>
    /\ failing = {}
    /\ channels = WorkspaceChannels
    /\ messages = {}
    /\ messageIds = TRUE
    /\ fanout = NoFanOut
    /\ sync = NoSync
    /\ webhook = NoWebhook

NextClock ==
    \/ \E r \in Runs : Deliver(r)
    \/ \E r \in Runs : DeliverOverlapping(r)
    \/ \E r \in Runs : GetState(r)
    \/ \E r \in Runs : InitState(r)
    \/ \E r \in Runs : CreateTick(r)
    \/ \E r \in Runs : ResetBudget(r)
    \/ \E r \in Runs : UpdateTickNoBudget(r)
    \/ \E r \in Runs : GatherContext(r)
    \/ \E r \in Runs : UpdateTickContext(r)
    \/ \E r \in Runs : LlmDecision(r)
    \/ \E r \in Runs : UpdateTickLlm(r)
    \/ \E r \in Runs : ExecuteAction(r)
    \/ \E r \in Runs : UpdateStateCall(r)
    \/ \E r \in Runs : UpdateStateLands(r)
    \/ \E r \in Runs : CompleteTick(r)
    \/ ClockTicks

SpecClock == InitClock /\ [][NextClock]_vars

\* ------------------------------------------------------------------------
\* agentTickAllFunction: the fan-out to the personas (agent-tick.ts 336-371)
\* ------------------------------------------------------------------------
MaxIds == 2

\* A leadership, an internal and an external persona of ALL_AGENT_IDS
ALL_AGENT_IDS == <<"alex", "casey", "karen-customer">>

AgentIds == {ALL_AGENT_IDS[i] : i \in 1..Len(ALL_AGENT_IDS)}

FanOutEvents ==
    {[hasForce |-> hf, force |-> hf /\ f, hasAgentIds |-> TRUE, agentIds |-> ids] :
        hf \in BOOLEAN, f \in BOOLEAN,
        ids \in UNION {[1..n -> AgentIds] : n \in 0..MaxIds}}
    \cup {[hasForce |-> hf, force |-> hf /\ f, hasAgentIds |-> FALSE, agentIds |-> <<>>] :
        hf \in BOOLEAN, f \in BOOLEAN}

\* An agent/tick.all event arrives
FanOutEvent(e) ==
    /\ fanout.pc = "idle"
    /\ fanout' = [fanout EXCEPT !.pc = "received", !.event = e]
    /\ UNCHANGED <<webhook, sync, messageIds, messages, channels, failing, notes, now, disabled, dryRun, row, ticks, actionLog, sent, run, cmd, cmds,
                   glitches, down, outages, delivered>>

\* The cron schedule fires: the function runs without event data
CronFires ==
    /\ fanout.pc = "idle"
    /\ fanout' = [fanout EXCEPT !.pc = "received", !.event = NoEvent]
    /\ UNCHANGED <<webhook, sync, messageIds, messages, channels, failing, notes, now, disabled, dryRun, row, ticks, actionLog, sent, run, cmd, cmds,
                   glitches, down, outages, delivered>>

\* agentIds.filter((id) => !ENV.disabledAgents.includes(id))
activeAgents(agentIds, disabledAgents) ==
    LET Enabled(id) == id \notin disabledAgents IN SelectSeq(agentIds, Enabled)

\* The step trigger-agent-ticks: one agent/tick event per entry of activeAgents
TriggerAgentTicks ==
    /\ fanout.pc = "received"
    /\ LET force == IF fanout.event.hasForce THEN fanout.event.force ELSE FALSE
           agentIds == IF fanout.event.hasAgentIds THEN fanout.event.agentIds
                       ELSE ALL_AGENT_IDS
           active == activeAgents(agentIds, fanout.disabledAgents)
       IN fanout' = [fanout EXCEPT
              !.pc = "triggered",
              !.requests = [i \in 1..Len(active) |-> [agentId |-> active[i], force |-> force]]]
    /\ UNCHANGED <<webhook, sync, messageIds, messages, channels, failing, notes, now, disabled, dryRun, row, ticks, actionLog, sent, run, cmd, cmds,
                   glitches, down, outages, delivered>>

InitFanOut ==
    /\ now = 0
    /\ \E d \in SUBSET AgentIds :
          /\ fanout = [NoFanOut EXCEPT !.disabledAgents = d]
          /\ disabled = (Persona \in d)
    /\ dryRun = FALSE
    /\ row = NoRow
    /\ ticks = <<>>
    /\ actionLog = EmptyBag
    /\ sent = EmptyBag
    /\ run = [r \in Runs |-> IdleRun]
    /\ cmd = IdleCmd
    /\ cmds = 0
    /\ glitches = 0
    /\ down = FALSE
    /\ outages = 0
    /\ delivered = 0
    /\ notes = <<>>
    /\ failing = {}
    /\ channels = WorkspaceChannels
    /\ messages = {}
    /\ messageIds = TRUE
    /\ sync = NoSync
    /\ webhook = NoWebhook

NextFanOut ==
    \/ \E e \in FanOutEvents : FanOutEvent(e)
    \/ CronFires
    \/ TriggerAgentTicks

SpecFanOut == InitFanOut /\ [][NextFanOut]_vars

\* ------------------------------------------------------------------------
\* syncSlackMessagesToSupabase: the channel messages a cycle fetched are
\* written through to the messages table (slack.ts 383-536)
\* ------------------------------------------------------------------------
\* users.info: the profile e-mail and the real name of the workspace's users
SlackUsers == {"U_ALEX", "U_MORGAN", "U_KAREN"}

ProfileEmail(userId) ==
    CASE userId = "U_ALEX" -> <<"alex", "@humansent.co">>
      [] userId = "U_MORGAN" -> AddrMorgan
      [] OTHER -> <<"karen", "@customer.com">>

\* conversations.history of the channel: the messages every sync fetches
History == {[ts |-> 1, userId |-> "U_ALEX"], [ts |-> 2, userId |-> "U_KAREN"],
            [ts |-> 3, userId |-> "U_MORGAN"]}

\* resolveUserToAgent: the persona behind a Slack user; `answered` is FALSE
\* when users.info throws
resolveUserToAgent(userId, answered) ==
    IF ~answered
    THEN [agentId |-> "", external |-> userId]
    ELSE IF EndsWith(ProfileEmail(userId), AllowedSuffix)
    THEN [agentId |-> ProfileEmail(userId)[1], external |-> ""]
    ELSE [agentId |-> "", external |-> IF userId = "U_KAREN" THEN "Karen" ELSE userId]

\* messagesToStore: one row per fetched message, id slack:<channel>:<ts>
messagesToStore(unanswered) ==
    {[id |-> <<"slack", msg.ts>>,
      fromAgent |-> resolveUserToAgent(msg.userId, msg.userId \notin unanswered).agentId,
      fromExternal |-> resolveUserToAgent(msg.userId, msg.userId \notin unanswered).external]
        : msg \in History}

\* The sync resolves the users of the fetched messages (one users.info call
\* per user, some of which may throw) and builds the rows
BuildRows(c) ==
    /\ sync[c].pc = "idle"
    /\ \E unanswered \in SUBSET SlackUsers :
          sync' = [sync EXCEPT ![c] = [pc |-> "built", rows |-> messagesToStore(unanswered)]]
    /\ UNCHANGED <<webhook, fanout, messageIds, messages, channels, failing, notes, now, disabled, dryRun, row, ticks, actionLog, sent, run, cmd, cmds,
                   glitches, down, outages, delivered>>

\* db.upsertMessages(messagesToStore)
StoreRows(c) ==
    /\ sync[c].pc = "built"
    /\ messages' = upsertMessages(messages, sync[c].rows)
    /\ sync' = [sync EXCEPT ![c].pc = "synced"]
    /\ UNCHANGED <<webhook, fanout, messageIds, channels, failing, notes, now, disabled, dryRun, row, ticks, actionLog, sent, run, cmd, cmds,
                   glitches, down, outages, delivered>>

InitSync ==
    /\ now = 0
    /\ disabled = FALSE
    /\ dryRun = FALSE
    /\ row = NoRow
    /\ ticks = <<>>
    /\ actionLog = EmptyBag
    /\ sent = EmptyBag
    /\ run = [r \in Runs |-> IdleRun]
    /\ cmd = IdleCmd
    /\ cmds = 0
    /\ glitches = 0
    /\ down = FALSE
    /\ outages = 0
    /\ delivered = 0
    /\ notes = <<>>
    /\ failing = {}
    /\ channels = WorkspaceChannels
    /\ messages = {}
    /\ messageIds = TRUE
    /\ fanout = NoFanOut
    /\ sync = NoSync
    /\ webhook = NoWebhook

NextSync ==
    \/ \E c \in Syncers : BuildRows(c)
    \/ \E c \in Syncers : StoreRows(c)

SpecSync == InitSync /\ [][NextSync]_vars

\* ------------------------------------------------------------------------
\* POST /api/slack/events: Slack messages of the control channel become
\* slack/control.command events (index.ts 108-240)
\* ------------------------------------------------------------------------
\* SLACK_CONTROL_COMMAND_PREFIX || '!hs'
prefix == "!hs"

ReplayWindow == 300

\* The HMAC of `v0:<timestamp>:<body>` under a key: equal digests for equal
\* key, timestamp and body only
Hmac(key, age, body) == <<key, age, body>>

\* Variant: no bound on the age of the timestamp
verifySlackSignatureAnyAge(env, req) ==
    /\ env.signingSecret # ""
    /\ req.signature # <<>>
    /\ Hmac(env.signingSecret, req.age, "sent") = req.signature

\* verifySlackSignature
verifySlackSignature(env, req) ==
    /\ env.signingSecret # ""
    /\ req.signature # <<>>
    /\ ~((IF req.age < 0 THEN 0 - req.age ELSE req.age) > ReplayWindow)
    /\ Hmac(env.signingSecret, req.age, "sent") = req.signature

\* String.trim on a text of tokens: the blanks at both ends go
RECURSIVE trimStart(_)
trimStart(text) ==
    IF text # <<>> /\ Head(text) = " " THEN trimStart(Tail(text)) ELSE text

RECURSIVE trimEnd(_)
trimEnd(text) ==
    IF text # <<>> /\ text[Len(text)] = " "
    THEN trimEnd(SubSeq(text, 1, Len(text) - 1)) ELSE text

trim(text) == trimEnd(trimStart(text))

\* String.toLowerCase on the tokens of a text
toLowerCase(text) == [i \in 1..Len(text) |-> IF text[i] = "!HS" THEN "!hs" ELSE text[i]]

startsWith(text, p) == text # <<>> /\ text[1] = p

\* The checks of the event_callback branch after the signature check
IsCommand(env, req) ==
    /\ req.type = "event_callback"
    /\ req.wellTyped
    /\ req.eventType = "message"
    /\ ~req.bot /\ ~req.subtype
    /\ env.controlChannelId # "" => req.channel = env.controlChannelId
    /\ env.allowedUserIds # {} => req.user \in env.allowedUserIds
    /\ startsWith(toLowerCase(trim(req.text)), prefix)

\* The HTTP status the handler answers with
Answer(env, req) ==
    IF req.type = "url_verification" THEN (IF req.wellTyped THEN 200 ELSE 400)
    ELSE IF ~verifySlackSignature(env, req) THEN 401
    ELSE 200

Texts == {<<"!hs", " ", "pause">>, <<" ", "!hs", " ", "pause">>, <<"!HS", " ", "pause">>,
          <<"hello">>, <<"hello", " ", "!hs">>, <<>>}

Ages == {0, ReplayWindow, ReplayWindow + 1, 0 - ReplayWindow - 1}

\* What a sender can put in x-slack-signature: nothing, the digest Slack
\* computes, a digest under another key, over another body, or for another
\* timestamp
Signatures(age) ==
    {<<>>, Hmac("s3cret", age, "sent"), Hmac("guess", age, "sent"),
     Hmac("s3cret", age, "other"), Hmac("s3cret", 0, "sent")}

\* One request is handled: the answer, and for a command the event
\* slack/control.command with the trimmed text (inngest.send is best-effort:
\* when it throws the error is logged and nothing is sent)
Handled(env, req, sendWorks) ==
    [env |-> env, req |-> req, status |-> Answer(env, req),
     commands |-> IF /\ req.type # "url_verification"
                     /\ verifySlackSignature(env, req)
                     /\ IsCommand(env, req)
                     /\ sendWorks
                  THEN <<[channel |-> req.channel, user |-> req.user,
                          text |-> trim(req.text)]>>
                  ELSE <<>>]

\* A request arrives at the endpoint
SlackEvents ==
    /\ webhook.status = 0
    /\ \E t \in {"url_verification", "event_callback", "block_actions"},
          a \in Ages, w \in BOOLEAN, et \in {"message", "reaction_added"},
          b \in BOOLEAN, st \in BOOLEAN, c \in {"C_CONTROL", "C_GENERAL"},
          u \in {"U_OPERATOR", "U_GUEST"}, x \in Texts, sendWorks \in BOOLEAN :
          \E sig \in Signatures(a) :
              webhook' = Handled(webhook.env,
                                 [type |-> t, signature |-> sig, age |-> a,
                                  wellTyped |-> w, eventType |-> et, bot |-> b,
                                  subtype |-> st, channel |-> c, user |-> u,
                                  text |-> x],
                                 sendWorks)
    /\ UNCHANGED <<sync, fanout, messageIds, messages, channels, failing, notes, now, disabled, dryRun, row, ticks, actionLog, sent, run, cmd, cmds,
                   glitches, down, outages, delivered>>

InitWebhook ==
    /\ now = 0
    /\ disabled = FALSE
    /\ dryRun = FALSE
    /\ row = NoRow
    /\ ticks = <<>>
    /\ actionLog = EmptyBag
    /\ sent = EmptyBag
    /\ run = [r \in Runs |-> IdleRun]
    /\ cmd = IdleCmd
    /\ cmds = 0
    /\ glitches = 0
    /\ down = FALSE
    /\ outages = 0
    /\ delivered = 0
    /\ notes = <<>>
    /\ failing = {}
    /\ channels = WorkspaceChannels
    /\ messages = {}
    /\ messageIds = TRUE
    /\ fanout = NoFanOut
    /\ sync = NoSync
    /\ \E s \in {"", "s3cret"}, c \in {"", "C_CONTROL"}, a \in {{}, {"U_OPERATOR"}} :
          webhook = [NoWebhook EXCEPT !.env = [signingSecret |-> s,
                                               controlChannelId |-> c,
                                               allowedUserIds |-> a]]

NextWebhook == SlackEvents

SpecWebhook == InitWebhook /\ [][NextWebhook]_vars

\* ------------------------------------------------------------------------
\* Memory: the merge of the oracle's memoryUpdates into notes.observations
\* made ahead of step update-state (agent-tick.ts, lines 257-280)
\* ------------------------------------------------------------------------
MemoryLimit == 20

\* String.toLowerCase on the observation texts of this model
Lower(s) == CASE s = "A" -> "a" [] s = "B" -> "b" [] OTHER -> s

Observations == {"a", "A", "b"}

\* memoryUpdates.observations: up to two texts
NewObservations ==
    {<<>>} \cup {<<x>> : x \in Observations}
           \cup {<<x, y>> : x \in Observations, y \in Observations}

ForgetSets == {{}, {"a"}, {"o1", "b"}}

\* llmResponse.output.memoryUpdates: absent, or observations and forget
MemoryUpdates ==
    {[present |-> FALSE, observations |-> <<>>, forget |-> {}]} \cup
    {[present |-> TRUE, observations |-> o, forget |-> f] :
        o \in NewObservations, f \in ForgetSets}

\* Array.slice(0, n)
Slice(s, n) == SubSeq(s, 1, IF Len(s) < n THEN Len(s) ELSE n)

\* Variant: existing entries are not compared with the new ones
mergedObsForgetOnly(existingObs, memoryUpdates) ==
    IF ~memoryUpdates.present THEN existingObs
    ELSE LET newObs == memoryUpdates.observations
             Kept(obs) == obs \notin memoryUpdates.forget
             filteredObs == SelectSeq(existingObs, Kept)
         IN  Slice(newObs \o filteredObs, MemoryLimit)

\* updatedNotes.observations
mergedObs(existingObs, memoryUpdates) ==
    IF ~memoryUpdates.present THEN existingObs
    ELSE LET newObs == memoryUpdates.observations
             Kept(obs) ==
                 /\ obs \notin memoryUpdates.forget
                 /\ ~\E i \in 1..Len(newObs) : Lower(newObs[i]) = Lower(obs)
             filteredObs == SelectSeq(existingObs, Kept)
         IN  Slice(newObs \o filteredObs, MemoryLimit)

\* Notes left by earlier cycles: one entry short of the limit
StoredNotes ==
    <<"o1", "o2", "o3", "o4", "o5", "o6", "o7", "o8", "o9", "o10",
      "o11", "o12", "o13", "o14", "o15", "o16", "o17", "o18", "o19">>

InitMemory ==
    /\ now = 0
    /\ disabled = FALSE
    /\ dryRun = FALSE
    /\ row = StoredRow(DailyBudget, TRUE)
    /\ ticks = <<>>
    /\ actionLog = EmptyBag
    /\ sent = EmptyBag
    /\ run = [r \in Runs |-> IdleRun]
    /\ cmd = IdleCmd
    /\ cmds = 0
    /\ glitches = MaxGlitches
    /\ down = FALSE
    /\ outages = MaxOutages
    /\ delivered = 0
    /\ notes \in {<<>>, StoredNotes}
    /\ failing = {}
    /\ channels = WorkspaceChannels
    /\ messages = {}
    /\ messageIds = TRUE
    /\ fanout = NoFanOut
    /\ sync = NoSync
    /\ webhook = NoWebhook

\* The notes written by the update-state of one more cycle of the persona
MergeNotes ==
    /\ delivered < MaxRuns
    /\ \E memoryUpdates \in MemoryUpdates : notes' = mergedObs(notes, memoryUpdates)
    /\ delivered' = delivered + 1
    /\ UNCHANGED <<webhook, sync, fanout, messageIds, messages, channels, failing, now, disabled, dryRun, row, ticks, actionLog, sent, run, cmd,
                   cmds, glitches, down, outages>>

SpecMemory == InitMemory /\ [][MergeNotes]_vars

TypeOK ==
    /\ now \in 0..MaxNow
    /\ glitches \in 0..MaxGlitches
    /\ outages \in 0..MaxOutages
    /\ delivered \in 0..MaxRuns
    /\ row = NoRow \/ row.budgetRemaining \in Int
    /\ \A r \in Runs : run[r].k \in 0..(Len(run[r].dec) + 1)

\* ------------------------------------------------------------------------
\* Vocabulary of the properties
\* ------------------------------------------------------------------------
\* An address that does not end in the allow-listed suffix
OutsideAllowList(email) == email[Len(email)] # "@humansent.co"

Recipients(action) == action.to \o action.cc

HasOutsider(action) ==
    /\ action.type = "send_email"
    /\ \E i \in 1..Len(Recipients(action)) : OutsideAllowList(Recipients(action)[i])

Outsiders(action) == SelectSeq(Recipients(action), OutsideAllowList)

\* The fixed cost table of the specification
ListedCost(type) ==
    CASE type = "send_email" -> 10
      [] type = "send_slack_message" -> 5
      [] type = "create_task" -> 3
      [] type \in {"mark_task_done", "snooze_task"} -> 1
      [] type = "use_precedent" -> 5
      [] OTHER -> 0

\* Sum of the listed costs of the actions whose returned result is successful
RECURSIVE SuccessCost(_, _)
SuccessCost(actions, results) ==
    IF results = <<>> THEN 0
    ELSE (IF Head(results).success THEN ListedCost(Head(actions).type) ELSE 0)
         + SuccessCost(Tail(actions), Tail(results))

\* agent_actions rows of one action of one tick
RowsOf(tick, idx) == {x \in BagToSet(actionLog) : x.tick = tick /\ x.idx = idx}

RECURSIVE Copies(_)
Copies(rows) ==
    IF rows = {} THEN 0
    ELSE LET x == CHOOSE y \in rows : TRUE
         IN  CopiesIn(x, actionLog) + Copies(rows \ {x})

RowCount(tick, idx) == Copies(RowsOf(tick, idx))

TimesSent(tick, idx) == CopiesIn([tick |-> tick, idx |-> idx], sent)

NoFailureYet == glitches = 0 /\ outages = 0

Ended(r) == run[r].pc \in {"done", "failed", "crashed"}
Aborted(r) == run[r].pc \in {"fail-tick", "failed", "crashed"}

C2_DispatchedAtMostOnce ==
    \A m \in BagToSet(sent) : CopiesIn(m, sent) <= 1

\* ------------------------------------------------------------------------
\* C3
\* ------------------------------------------------------------------------
\* C3: for every cycle that ends completed, the budgetRemaining written by
\* the final state update is max(0, b - C), with b the budget the cycle
\* started from (after its rollover) and C the sum of the listed costs of
\* exactly the actions whose result is successful.
C3_FinalBudget ==
    \A r \in Runs :
        run[r].pc \in {"complete-tick", "done"} =>
            /\ Len(run[r].results) = Len(run[r].dec)
            /\ run[r].newBudget =
                  Max(0, run[r].startBudget - SuccessCost(run[r].dec, run[r].results))
            /\ row.budgetRemaining = run[r].newBudget

\* A completed cycle with one failed and one successful cost-bearing action
C3_Witness ==
    \E r \in Runs :
        /\ run[r].pc = "done"
        /\ Len(run[r].results) = 2
        /\ ~run[r].results[1].success
        /\ ListedCost(run[r].dec[1].type) > 0
        /\ run[r].results[2].success
        /\ run[r].newBudget = run[r].startBudget - ListedCost(run[r].dec[2].type)
        /\ run[r].newBudget > 0

\* ------------------------------------------------------------------------
\* C4
\* ------------------------------------------------------------------------
\* C4: in every reachable state the stored budgetRemaining is at least 0,
\* after any sequence of cycles, rollovers and operator budget resets.
C4_BudgetNonNegative ==
    row # NoRow => row.budgetRemaining >= 0

\* A cycle whose successful actions cost more than the budget it started
\* from has written its state, after an operator command was applied
C4_Witness ==
    /\ cmds > 0
    /\ \E r \in Runs :
          /\ run[r].pc = "done"
          /\ SuccessCost(run[r].dec, run[r].results) > run[r].startBudget
          /\ row.budgetRemaining = 0

\* ------------------------------------------------------------------------
\* C5
\* ------------------------------------------------------------------------
\* The step is the daily-rollover reset of some cycle
RolloverStep == \E r \in Runs : run[r].pc = "reset-budget" /\ run'[r] # run[r]

\* The step is the store write of an operator's budget reset command
OperatorResetStep == cmd.pc = "apply" /\ cmd.kind = "budget-reset" /\ cmd' # cmd

\* C5: under every interleaving of cycles and commands the stored
\* budgetRemaining never increases from one state to the next except through
\* the daily-rollover reset or an operator's budget reset.
C5_NeverIncreases ==
    [][(row # NoRow /\ row' # NoRow /\ row'.budgetRemaining > row.budgetRemaining)
          => (RolloverStep \/ OperatorResetStep)]_vars

\* ------------------------------------------------------------------------
\* C6
\* ------------------------------------------------------------------------
\* C6: when budgetResetDate is not today the rollover sets budgetRemaining to
\* the configured default and stamps budgetResetDate with today, so that the
\* rollover check is a no-op for the rest of the day.
C6_RolloverStamps ==
    [][\A r \in Runs :
          run[r].pc = "reset-budget" /\ run'[r].pc \notin {"reset-budget", "fail-tick", "crashed"}
             => /\ row'.budgetRemaining = DailyBudget
                /\ row'.budgetResetAt = DayOf(now)]_vars

\* ------------------------------------------------------------------------
\* C7
\* ------------------------------------------------------------------------
\* The cycle's state write reached the store
StateWritten(r) == row # NoRow /\ row.lastTickId = run[r].tickId

\* What the cycle took off the stored budget
Debit(r) == IF StateWritten(r) THEN run[r].startBudget - row.budgetRemaining ELSE 0

\* Persisted successful cost-bearing ActionResults of the cycle
PaidRows(r) ==
    {x \in BagToSet(actionLog) :
        x.tick = run[r].tickId /\ x.success /\ ListedCost(x.type) > 0}

\* C7: at the end of every cycle, failed ones included, the budget has been
\* debited only if a persisted successful ActionResult of the cycle justifies
\* it, and every persisted successful cost-bearing ActionResult of the cycle
\* has its debit.
C7_CostWithResult ==
    \A r \in Runs :
        Ended(r) /\ run[r].tickId # Null =>
            /\ Debit(r) > 0 => PaidRows(r) # {}
            /\ PaidRows(r) # {} => Debit(r) > 0

\* ------------------------------------------------------------------------
\* C8
\* ------------------------------------------------------------------------
\* The actions of the cycle whose step was run at least once
Attempted(r) ==
    {i \in 1..Len(run[r].dec) :
        \/ i <= Len(run[r].results)
        \/ Aborted(r) /\ run[r].k = i}

\* C8: every attempted action of a cycle has exactly one persisted
\* ActionResult, never zero and never two, also when its step is retried.
C8_OneRowPerAction ==
    \A r \in Runs :
        run[r].tickId # Null /\ (Ended(r) \/ run[r].pc = "update-state") =>
            \A i \in Attempted(r) : RowCount(run[r].tickId, i) = 1

\* ------------------------------------------------------------------------
\* C9
\* ------------------------------------------------------------------------
ParseFailureReasons ==
    {"Failed to parse LLM response", "Failed to parse LLM response as JSON"}

\* C9: parsing never raises; for every raw output that is not JSON, misses
\* required fields or has the wrong shape, the decision is exactly one
\* no_action with a parse-failure reason, nothing is spent on it, and the
\* cycle goes on and ends completed unless a store call fails.
C9_MalformedFallsBack ==
    \A r \in Runs :
        run[r].oracle = "malformed" =>
            /\ run[r].pc # "llm-decision"
            /\ Len(run[r].dec) = 1
            /\ run[r].dec[1].type = "no_action"
            /\ run[r].dec[1].reason \in ParseFailureReasons
            /\ run[r].budgetUsed = 0
            /\ NoFailureYet => ~Aborted(r)
            /\ NoFailureYet /\ Ended(r) =>
                  /\ run[r].pc = "done"
                  /\ ticks[run[r].tickId].status = "completed"
                  /\ RowCount(run[r].tickId, 1) = 1

\* A completed cycle whose oracle output failed the schema
C9_Witness ==
    \E r \in Runs :
        /\ run[r].oracle = "malformed"
        /\ run[r].pc = "done"
        /\ run[r].dec[1].reason = "Failed to parse LLM response"
        /\ ticks[run[r].tickId].status = "completed"
        /\ run[r].results = <<[success |-> TRUE, error |-> NoErr]>>

\* ------------------------------------------------------------------------
\* C10
\* ------------------------------------------------------------------------
\* C10: a timeout of the oracle call is handled like a malformed response:
\* the decision is the fallback no_action and the cycle goes on.
C10_TimeoutFallsBack ==
    \A r \in Runs :
        run[r].oracle = "timeout" =>
            /\ run[r].pc # "llm-decision"
            /\ Len(run[r].dec) = 1
            /\ run[r].dec[1].type = "no_action"
            /\ ~Aborted(r)

\* ------------------------------------------------------------------------
\* C11
\* ------------------------------------------------------------------------
\* The cycle was aborted inside the action loop
AbortedInLoop(r) == Aborted(r) /\ run[r].k \in 1..Len(run[r].dec)

StatedReason(force, st) ==
    IF disabled THEN "disabled"
    ELSE IF ~force /\ ~isBusinessHours(now) THEN "outside-hours"
    ELSE IF ~force /\ st # NoState /\ st.lastTickAt # Null
            /\ now - st.lastTickAt < TickInterval THEN "interval"
    ELSE IF st # NoState /\ ~st.isActive THEN "inactive"
    ELSE "none"

\* C12: a non-forced tick that is skipped ahead of the record reports the
\* first condition that holds in the order disabled, outside-active-window,
\* interval-not-elapsed, inactive.
C12_FirstMatchWins ==
    [][\A r \in Runs :
          run'[r].pc = "skipped" /\ run[r].pc # "skipped" /\ ~run'[r].force
             => run'[r].reason = StatedReason(run'[r].force, run'[r].st)]_vars

\* ------------------------------------------------------------------------
\* C13
\* ------------------------------------------------------------------------
\* C13: a forced tick is skipped only for the reasons disabled or inactive;
\* the active window, the minimum interval and the exhausted budget never
\* skip it.
C13_ForcedSkips ==
    \A r \in Runs :
        run[r].force /\ run[r].pc \in {"skipped", "update-tick-no-budget", "skipped-budget"}
            => run[r].pc = "skipped" /\ run[r].reason \in {"disabled", "inactive"}

\* ------------------------------------------------------------------------
\* C14
\* ------------------------------------------------------------------------
\* Positions of a run ahead of its tick record
BeforeRecord == {"idle", "get-state", "init-state"} \cup Terminal

StoresUntouched == ticks' = ticks /\ actionLog' = actionLog /\ sent' = sent

\* C14: a tick skipped as disabled, outside the active window, within the
\* interval or inactive is skipped ahead of the record: no step of the run
\* up to the skip creates a tick row, logs an action or sends a message, and
\* the run has fetched no context, called no oracle and executed no action.
C14_SkipLeavesNoTrace ==
    [][\A r \in Runs :
          /\ run[r].pc \in BeforeRecord /\ run'[r] # run[r] => StoresUntouched
          /\ run'[r].pc = "skipped" /\ run'[r] # run[r] =>
                /\ run[r].pc \in BeforeRecord
                /\ run'[r].reason \in {"disabled", "outside-hours", "interval", "inactive"}
                /\ run'[r].tickId = Null
                /\ run'[r].oracle = "none"
                /\ run'[r].dec = <<>>
                /\ run'[r].results = <<>>]_vars

\* A tick skipped for the interval after an earlier cycle of the persona
\* completed: the store holds that cycle's record only
C14_Witness ==
    \E r \in Runs :
        /\ run[r].pc = "skipped"
        /\ run[r].reason = "interval"
        /\ run[r].tickId = Null
        /\ Len(ticks) = 1
        /\ ticks[1].status = "completed"

\* ------------------------------------------------------------------------
\* C15
\* ------------------------------------------------------------------------
\* The run found its budget exhausted after the rollover, its record existing
BudgetExhausted(r) ==
    /\ run[r].tickId # Null
    /\ run[r].pc # "reset-budget"
    /\ run[r].startBudget <= 0

\* C15: when the budget is found exhausted after the rollover and the record
\* exists, the cycle stops there: no context, no oracle call, no action, the
\* record never completed; the record is marked skipped when the cycle ends
\* skipped, which it does unless the record update fails.
C15_ExhaustedStops ==
    \A r \in Runs :
        BudgetExhausted(r) =>
            /\ run[r].pc \in {"update-tick-no-budget", "skipped-budget",
                              "fail-tick", "failed", "crashed"}
            /\ run[r].oracle = "none"
            /\ run[r].dec = <<>>
            /\ run[r].results = <<>>
            /\ \A i \in 0..1 : RowsOf(run[r].tickId, i) = {}
            /\ ticks[run[r].tickId].status # "completed"
            /\ run[r].pc = "skipped-budget" => ticks[run[r].tickId].status = "skipped"
            /\ NoFailureYet => run[r].pc \in {"update-tick-no-budget", "skipped-budget"}

\* A cycle stopped for its exhausted budget, its record marked skipped
C15_Witness ==
    \E r \in Runs :
        /\ BudgetExhausted(r)
        /\ run[r].pc = "skipped-budget"
        /\ ticks[run[r].tickId] = [status |-> "skipped", error |-> "Daily budget exhausted"]
        /\ row.budgetRemaining = 0

\* ------------------------------------------------------------------------
\* C16
\* ------------------------------------------------------------------------
FinalStatuses == {"completed", "failed", "skipped"}

\* C16: once the status of a tick record is completed, failed or skipped, no
\* later step or retry changes it.
C16_FinalizedOnce ==
    [][\A t \in 1..Len(ticks) :
          ticks[t].status \in FinalStatuses => ticks'[t].status = ticks[t].status]_vars

\* ------------------------------------------------------------------------
\* C17
\* ------------------------------------------------------------------------
\* C17: when a step after the creation of the tick record throws, the error
\* leaves the handler only after the record was given status failed and an
\* error text.
C17_FailedRecorded ==
    \A r \in Runs :
        run[r].pc \in {"failed", "crashed"} /\ run[r].tickId # Null =>
            /\ ticks[run[r].tickId].status = "failed"
            /\ ticks[run[r].tickId].error # ""

\* ------------------------------------------------------------------------
\* C18
\* ------------------------------------------------------------------------
\* C18: after any number of cycles the memory has at most 20 entries and no
\* two entries that are equal ignoring case.
C18_MemoryBound ==
    /\ Len(notes) <= 20
    /\ \A i, j \in 1..Len(notes) : i # j => Lower(notes[i]) # Lower(notes[j])

\* A channel post whose text holds the overseer's handle: an @ sign, the
\* handle in any letter case, and no further word character after it
OverseerHandle == "precedent"

AddressesOverseer(action) ==
    /\ action.type = "send_slack_message"
    /\ \E i \in 1..(Len(action.text) - 1) :
          /\ action.text[i] = "@"
          /\ FoldCase(action.text[i + 1]) = OverseerHandle
          /\ i + 2 <= Len(action.text) => action.text[i + 2] \notin WordPieces

\* ------------------------------------------------------------------------
\* C19
\* ------------------------------------------------------------------------
\* Action i of the run would hand a message to the mail or Slack transport
Dispatching(r, i) ==
    run[r].dec[i].type \in {"send_email", "send_slack_message", "use_precedent"}
    /\ ~HasOutsider(run[r].dec[i])
    /\ ~AddressesOverseer(run[r].dec[i])

DryRunError == Err("DRY_RUN", <<>>)

AfterLoop(r) == run[r].pc \in {"update-state", "complete-tick", "done"}

\* C20: within one cycle the actions run in the proposed order, one at a
\* time: whatever action i+1 has logged or dispatched, actions 1..i have
\* produced their results by then, result i is the logged outcome of the
\* i-th proposed action, and the loop is left only after every proposed
\* action has its result.
C20_InOrder ==
    \A r \in Runs : run[r].tickId # Null =>
        /\ \A x \in BagToSet(actionLog) : x.tick = run[r].tickId =>
              /\ x.idx \in 1..Len(run[r].dec)
              /\ x.idx <= Len(run[r].results) + 1
              /\ x.type = run[r].dec[x.idx].type
        /\ \A m \in BagToSet(sent) : m.tick = run[r].tickId =>
              /\ m.idx \in 1..Len(run[r].dec)
              /\ m.idx <= Len(run[r].results) + 1
              /\ run[r].dec[m.idx].type \in MessageTypes
        /\ Len(run[r].results) <= Len(run[r].dec)
        /\ \A i \in 1..Len(run[r].results) :
              \E x \in RowsOf(run[r].tickId, i) :
                  /\ x.type = run[r].dec[i].type
                  /\ x.success = run[r].results[i].success
                  /\ x.error = run[r].results[i].error
        /\ AfterLoop(r) =>
              \A i \in 1..Len(run[r].dec) : i <= Len(run[r].results)

\* Between two actions: the first has its result and its row, the second has
\* logged and dispatched nothing yet
C20_Witness ==
    \E r \in Runs :
        /\ run[r].pc = "execute"
        /\ Len(run[r].dec) = 2
        /\ run[r].k = 2
        /\ Len(run[r].results) = 1
        /\ run[r].results[1].success
        /\ RowCount(run[r].tickId, 1) = 1
        /\ RowCount(run[r].tickId, 2) = 0
        /\ \A m \in BagToSet(sent) : m.tick = run[r].tickId => m.idx = 1

\* ------------------------------------------------------------------------
\* C21
\* ------------------------------------------------------------------------
\* C21: a channel post whose text addresses the overseer by its handle is
\* never handed to the Slack transport, every result and every audit row of
\* it is failed, and it adds nothing to the cost of the cycle.
C21_OverseerPostBlocked ==
    \A r \in Runs : run[r].tickId # Null =>
        \A i \in 1..Len(run[r].dec) : AddressesOverseer(run[r].dec[i]) =>
            /\ TimesSent(run[r].tickId, i) = 0
            /\ \A x \in RowsOf(run[r].tickId, i) : ~x.success
            /\ i <= Len(run[r].results) => ~run[r].results[i].success
            /\ run[r].budgetUsed = SuccessCost(run[r].dec, run[r].results)
            /\ run[r].pc = "done" /\ Len(run[r].dec) = 1 =>
                  run[r].newBudget = run[r].startBudget

\* A completed live cycle whose only action was such a post
C21_Witness ==
    /\ ~dryRun
    /\ \E r \in Runs :
          /\ run[r].pc = "done"
          /\ run[r].dec = <<SlackAtPrecedent>>
          /\ run[r].results = <<[success |-> FALSE,
                                 error |-> Err("PRECEDENT_VIA_DM", <<>>)]>>
          /\ RowCount(run[r].tickId, 1) = 1
          /\ run[r].budgetUsed = 0
          /\ sent = EmptyBag

\* ------------------------------------------------------------------------
\* C22
\* ------------------------------------------------------------------------
\* The cycle has created its tick record and has not ended
Running(r) == InFlight(r) /\ run[r].tickId # Null

\* C22: no two cycles of the persona are in the running phase at the same
\* time, and the state a cycle is about to write back is computed from what
\* the store still holds.
C22_SingleWriter ==
    /\ \A r, q \in Runs : Running(r) /\ Running(q) => r = q
    /\ \A r \in Runs : run[r].pc = "update-state" =>
          /\ row.budgetRemaining = run[r].st.budgetRemaining
          /\ row.lastTickAt = run[r].st.lastTickAt

\* ------------------------------------------------------------------------
\* C23
\* ------------------------------------------------------------------------
\* The persona is enabled in the configuration and paused in the store
Paused == ~disabled /\ row # NoRow /\ ~row.isActive

\* Nothing of a cycle exists for run r: no tick record, no oracle call
NothingRan(r) ==
    /\ run[r].tickId = Null
    /\ run[r].oracle = "none"
    /\ run[r].dec = <<>>
    /\ run[r].results = <<>>

\* C23 as stated: while the persona is paused every tick, forced or not, ends
\* skipped as inactive, and no tick record, oracle call or action exists.
C23_AsStated ==
    Paused =>
        /\ ticks = <<>> /\ actionLog = EmptyBag /\ sent = EmptyBag
        /\ \A r \in Runs :
              /\ NothingRan(r)
              /\ run[r].pc \in {"idle", "get-state", "skipped"}
              /\ run[r].pc = "skipped" => run[r].reason = "inactive"

\* C23 amended: while the persona is paused no tick, forced or not, creates a
\* tick record, calls the oracle or runs an action.  The tick ends skipped as
\* inactive, except that a tick that is not forced and arrives outside
\* business hours is skipped for that reason before the state is read, and
\* that a tick whose state read keeps failing ends with that error.
C23_PausedSkipped ==
    [][Paused =>
        /\ ticks' = ticks /\ actionLog' = actionLog /\ sent' = sent /\ row' = row
        /\ \A r \in Runs :
              /\ run'[r].tickId = Null /\ run'[r].oracle = "none"
              /\ run'[r].dec = <<>> /\ run'[r].results = <<>>
              /\ run'[r].pc \in {"idle", "get-state", "skipped", "crashed"}
              /\ run'[r].pc = "skipped" /\ run[r].pc # "skipped" =>
                    run'[r].reason = IF ~run'[r].force /\ ~isBusinessHours(now)
                                     THEN "outside-hours" ELSE "inactive"
              /\ run'[r].pc = "crashed" /\ run[r].pc # "crashed" => down]_vars

\* The second tick of a paused persona, a forced one, was skipped as inactive
C23_Witness ==
    /\ Paused
    /\ delivered = MaxRuns
    /\ ticks = <<>>
    /\ \E r \in Runs :
          /\ run[r].pc = "skipped"
          /\ run[r].force
          /\ run[r].reason = "inactive"
          /\ ~run[r].st.isActive

\* ------------------------------------------------------------------------
\* C24
\* ------------------------------------------------------------------------
\* The cycle of run r started with 8 budget units and the oracle proposed
\* [send_email (10), no_action (0)]
Overdraft(r) ==
    /\ run[r].tickId # Null
    /\ run[r].startBudget = 8
    /\ run[r].dec = <<EmailInternal, NoAction>>

\* C24: in that cycle the send is attempted although it costs more than is
\* left; when it succeeded the cycle accrues 10, stores a budget of 0, ends
\* completed and has two results, each logged (once each when no step
\* attempt was repeated).
C24_NoPreCheck ==
    \A r \in Runs : Overdraft(r) /\ ~dryRun =>
        /\ Len(run[r].results) >= 1 /\ run[r].results[1].success =>
              /\ TimesSent(run[r].tickId, 1) >= 1
              /\ run[r].budgetUsed = 10
              /\ run[r].pc \in {"complete-tick", "done"} =>
                    /\ run[r].newBudget = 0
                    /\ row.budgetRemaining = 0
              /\ run[r].pc = "done" =>
                    /\ ticks[run[r].tickId].status = "completed"
                    /\ Len(run[r].results) = 2
                    /\ RowCount(run[r].tickId, 1) >= 1
                    /\ RowCount(run[r].tickId, 2) >= 1
                    /\ glitches = 0 =>
                          RowCount(run[r].tickId, 1) + RowCount(run[r].tickId, 2) = 2
        /\ run[r].pc = "done" /\ NoFailureYet => run[r].results[1].success

\* The overdrawn cycle completed: message sent once, budget 0, two rows
C24_Witness ==
    /\ ~dryRun
    /\ \E r \in Runs :
          /\ Overdraft(r)
          /\ run[r].pc = "done"
          /\ TimesSent(run[r].tickId, 1) = 1
          /\ row.budgetRemaining = 0
          /\ ticks[run[r].tickId].status = "completed"
          /\ RowCount(run[r].tickId, 1) = 1
          /\ RowCount(run[r].tickId, 2) = 1

\* ------------------------------------------------------------------------
\* C25
\* ------------------------------------------------------------------------
\* C25: when one source of the context fails, the cycle goes on to the oracle
\* with an empty result for that source and does not end failed.
C25_SourceFailureDegrades ==
    \A r \in Runs : \A s \in Sources : failing = {s} =>
        /\ ~Aborted(r)
        /\ run[r].pc \in {"update-tick-context", "llm-decision"} =>
              run[r].ctx = [x \in Sources |-> IF x = s THEN "empty" ELSE "fetched"]

\* ------------------------------------------------------------------------
\* C26
\* ------------------------------------------------------------------------
\* C26: in every cycle the prompts are submitted to the oracle at most once,
\* step retries included, exactly once in a cycle that ends completed, and
\* never in a tick that was gated out or skipped for budget.
C26_OracleOnce ==
    \A r \in Runs :
        /\ run[r].prompts <= 1
        /\ run[r].pc = "done" => run[r].prompts = 1
        /\ run[r].pc \in {"skipped", "skipped-budget"} => run[r].prompts = 0

\* ------------------------------------------------------------------------
\* C27
\* ------------------------------------------------------------------------
\* The state the gate works on: the stored one, or a fresh one
GateState(t, st) ==
    IF st = NoRow
    THEN [budgetRemaining |-> 250, budgetResetAt |-> t \div 2, isActive |-> TRUE,
          lastTickAt |-> Null, lastTickId |-> Null]
    ELSE st

\* One decision for each combination of configuration, time, force flag and
\* stored state
Decide(dis, t, force, st) ==
    LET g == GateState(t, st)
        budget == IF g.budgetResetAt # t \div 2 THEN 250 ELSE g.budgetRemaining
    IN  IF dis THEN "disabled"
        ELSE IF ~force /\ t % 2 # 0 THEN "outside-hours"
        ELSE IF ~g.isActive THEN "inactive"
        ELSE IF ~force /\ g.lastTickAt # Null /\ t - g.lastTickAt < 1 THEN "interval"
        ELSE IF budget <= 0 THEN "budget"
        ELSE "run"

\* The decision the gate of run r comes to in this step, "" when none
Decided(r) ==
    IF run'[r].pc = "skipped" /\ (run[r].pc # "skipped" \/ delivered' # delivered)
    THEN run'[r].reason
    ELSE IF run'[r].pc = "update-tick-no-budget" /\ run[r].pc # "update-tick-no-budget"
    THEN "budget"
    ELSE IF run'[r].pc = "gather-context" /\ run[r].pc # "gather-context"
    THEN "run"
    ELSE ""

\* C27: the gate is deterministic: its decision is a function of the time,
\* the configuration, the force flag and the stored state, so two
\* evaluations on the same four inputs decide the same.
C27_GateDeterministic ==
    [][\A r \in Runs :
          Decided(r) # "" => Decided(r) = Decide(disabled, now, run'[r].force, row)]_vars

\* Two forced ticks of a persona without budget were evaluated outside
\* business hours on the same stored state; both were skipped for budget
C27_Witness ==
    /\ now = 1
    /\ row = StoredRow(0, TRUE)
    /\ Len(ticks) = 2
    /\ \A t \in 1..2 : ticks[t].status = "skipped"
    /\ \E r \in Runs : run[r].pc = "skipped-budget" /\ run[r].force

\* ------------------------------------------------------------------------
\* C28
\* ------------------------------------------------------------------------
\* C28: the result of a message-sending action is successful exactly when
\* its message was handed to the external channel, and so is each of its
\* audit rows.
C28_AuditMatchesDispatch ==
    \A r \in Runs : run[r].tickId # Null =>
        \A i \in 1..Len(run[r].results) :
            run[r].dec[i].type \in {"send_email", "send_slack_message", "use_precedent"} =>
                /\ run[r].results[i].success <=> TimesSent(run[r].tickId, i) >= 1
                /\ \A x \in RowsOf(run[r].tickId, i) :
                      x.success <=> TimesSent(run[r].tickId, i) >= 1

\* ------------------------------------------------------------------------
\* C29
\* ------------------------------------------------------------------------
\* The step is one of a cycle: no control command moved
CycleStepOnly == cmd' = cmd /\ cmds' = cmds

\* C29: no step of a cycle changes the stored active flag, so a persona
\* paused while a cycle is in flight is still paused when the cycle is over.
C29_CycleKeepsActiveFlag ==
    [][CycleStepOnly /\ row # NoRow /\ row' # NoRow
          => row'.isActive = row.isActive]_vars

\* ------------------------------------------------------------------------
\* C30
\* ------------------------------------------------------------------------
\* C30: once the cycles delivered so far and their retries have ended, every
\* tick record that was created has a terminal status; none is left running.
C30_NoRecordLeftRunning ==
    (\A r \in Runs : ~InFlight(r)) =>
        \A t \in 1..Len(ticks) : ticks[t].status \in {"completed", "failed", "skipped"}

\* ------------------------------------------------------------------------
\* C31
\* ------------------------------------------------------------------------
\* The entries of the merged list that come from the previous memory
CarriedOver(merged, memoryUpdates) ==
    {merged[i] : i \in (Len(memoryUpdates.observations) + 1)..Len(merged)}

\* The step is the merge of memoryUpdates into the notes
MergeOf(memoryUpdates) ==
    /\ memoryUpdates.present
    /\ delivered' = delivered + 1
    /\ notes' = mergedObs(notes, memoryUpdates)

\* C31: after a merge with forget entries, no entry carried over from the
\* previous memory equals a forget entry, exactly or ignoring case.
C31_ForgottenGone ==
    [][\A memoryUpdates \in MemoryUpdates : MergeOf(memoryUpdates) =>
          \A e \in CarriedOver(notes', memoryUpdates) : \A f \in memoryUpdates.forget :
              e # f /\ Lower(e) # Lower(f)]_vars

\* ------------------------------------------------------------------------
\* C32
\* ------------------------------------------------------------------------
\* C32: merging the same memory updates once more into the result of their
\* merge gives the same entries in the same order.
C32_MergeConverges ==
    [][\A memoryUpdates \in MemoryUpdates :
          delivered' = delivered + 1 /\ notes' = mergedObs(notes, memoryUpdates)
             => mergedObs(notes', memoryUpdates) = notes']_vars

\* Two new entries were merged into nineteen stored ones and the list was
\* cut at the limit; the second merge of the same updates left it as it was
C32_Witness ==
    /\ delivered = 2
    /\ Len(notes) = MemoryLimit
    /\ notes[1] = "a" /\ notes[2] = "b" /\ notes[3] = "o1"
    /\ notes[MemoryLimit] = "o18"
    /\ notes = mergedObs(notes, [present |-> TRUE, observations |-> <<"a", "b">>,
                                 forget |-> {}])

\* ------------------------------------------------------------------------
\* C33
\* ------------------------------------------------------------------------
\* A channel post that names a channel the workspace does not have
NamesUnknownChannel(action) ==
    /\ action.type = "send_slack_message"
    /\ Len(action.channel) = 2 /\ action.channel[1] = "#"
    /\ action.channel[2] \notin channels

ChannelNotFound == Err("CHANNEL_NOT_FOUND", <<>>)

ReturnedId(tick, i) == IF messageIds THEN <<tick, i>> ELSE <<>>

\* Rows of the message store kept under an id
StoredUnder(id) == {m \in messages : m.id = id}

\* Action i of run r is a message-sending action with a successful result
SentWithSuccess(r, i) ==
    /\ run[r].tickId # Null
    /\ i \in 1..Len(run[r].results)
    /\ run[r].dec[i].type \in {"send_email", "send_slack_message", "use_precedent"}
    /\ run[r].results[i].success

\* The store holds the message of action i under the persona's name
Remembered(r, i) ==
    /\ StoredUnder(ReturnedId(run[r].tickId, i)) # {}
    /\ \A m \in StoredUnder(ReturnedId(run[r].tickId, i)) : m.fromAgent = "alex"

WithinInterval == row # NoRow /\ row.lastTickAt # Null /\ now - row.lastTickAt < TickInterval

\* C35: a tick that is not forced, for an active persona whose lastTickAt is
\* less than the minimum interval ago, is skipped as interval-not-elapsed;
\* and a cycle that is not forced creates its record at least the minimum
\* interval after the lastTickAt that the last completed cycle stored.
C35_IntervalKept ==
    [][\A r \in Runs :
          /\ run[r].pc = "get-state" /\ ~run[r].force
             /\ run'[r].pc \notin {"get-state", "crashed"}
             /\ WithinInterval /\ row.isActive
             => run'[r].pc = "skipped" /\ run'[r].reason = "interval"
          /\ run[r].pc = "create-tick" /\ ~run[r].force
             /\ run'[r] # run[r] /\ Len(ticks') > Len(ticks)
             => ~WithinInterval]_vars

\* ------------------------------------------------------------------------
\* C36
\* ------------------------------------------------------------------------
\* C36: the stored lastTickAt never decreases: every write of the persona's
\* state row stores a lastTickAt that is greater than or equal to the one
\* stored before it.
C36_LastTickAtMonotone ==
    [][row # NoRow /\ row' # NoRow => row'.lastTickAt >= row.lastTickAt]_vars

\* ------------------------------------------------------------------------
\* C37
\* ------------------------------------------------------------------------
\* The personas the fan-out was asked for: the listed ones, or all of them
Requested ==
    IF fanout.event.hasAgentIds
    THEN {fanout.event.agentIds[i] : i \in 1..Len(fanout.event.agentIds)}
    ELSE AgentIds

\* The requests the fan-out sent for persona p
RequestsFor(p) == {i \in 1..Len(fanout.requests) : fanout.requests[i].agentId = p}

\* C37: a fan-out sends exactly one agent/tick request for every requested
\* persona that is not in the disabled list, none for a disabled persona, and
\* every request carries the force value of the fan-out (false when absent).
C37_OneRequestPerPersona ==
    fanout.pc = "triggered" =>
        /\ \A p \in AgentIds :
              Cardinality(RequestsFor(p)) =
                  IF p \in Requested /\ p \notin fanout.disabledAgents THEN 1 ELSE 0
        /\ \A i \in 1..Len(fanout.requests) :
              fanout.requests[i].force = (fanout.event.hasForce /\ fanout.event.force)

\* ------------------------------------------------------------------------
\* C38
\* ------------------------------------------------------------------------
\* The message store has one row per id
OneRowPerId == \A m, n \in messages : m.id = n.id => m = n

\* The fetched messages are all in the store
AlreadySynced == \A msg \in History : \E m \in messages : m.id = <<"slack", msg.ts>>

\* C38: the write-through of the fetched channel messages is idempotent: a
\* sync of the same messages, after another or overlapping with another,
\* leaves one row per message id, and a sync of messages that are already
\* stored leaves the stored content as it was.
C38_SyncIdempotent ==
    [][\A c \in Syncers :
          sync[c].pc = "built" /\ sync'[c].pc = "synced"
          => /\ OneRowPerId'
             /\ AlreadySynced => messages' = messages]_vars

\* ------------------------------------------------------------------------
\* C39
\* ------------------------------------------------------------------------
\* The request carries the digest of its own timestamp and body under the
\* configured signing secret
SignedBySlack ==
    /\ webhook.env.signingSecret # ""
    /\ webhook.req.signature = Hmac(webhook.env.signingSecret, webhook.req.age, "sent")

\* A message event of a user: not of a bot, without subtype
PlainUserMessage ==
    /\ webhook.req.type = "event_callback"
    /\ webhook.req.eventType = "message"
    /\ ~webhook.req.bot /\ ~webhook.req.subtype

\* From the control channel and an allow-listed user, where configured
FromOperator ==
    /\ webhook.env.controlChannelId # "" => webhook.req.channel = webhook.env.controlChannelId
    /\ webhook.env.allowedUserIds # {} => webhook.req.user \in webhook.env.allowedUserIds

\* C39 as stated: a request becomes a control command only if it is signed
\* with the signing secret and at most 5 minutes old, is a plain user
\* message from the control channel and an allow-listed user (where
\* configured), and its text starts with the command prefix.
C39_AsStated ==
    webhook.commands # <<>> =>
        /\ SignedBySlack /\ webhook.req.age <= ReplayWindow
        /\ PlainUserMessage
        /\ FromOperator
        /\ webhook.req.text # <<>> /\ webhook.req.text[1] = "!hs"

\* C39: a request becomes a control command only if it is signed with the
\* signing secret and its timestamp is at most 5 minutes away from the
\* server's clock, is a plain user message from the control channel and an
\* allow-listed user (where configured), and its text, without the blanks
\* around it and without regard to case, starts with the command prefix.
C39_OnlyVerifiedCommands ==
    webhook.commands # <<>> =>
        /\ SignedBySlack /\ webhook.req.age <= ReplayWindow
        /\ 0 - webhook.req.age <= ReplayWindow
        /\ PlainUserMessage
        /\ FromOperator
        /\ \E i \in 1..Len(webhook.req.text) :
              /\ webhook.req.text[i] \in {"!hs", "!HS"}
              /\ \A j \in 1..(i - 1) : webhook.req.text[j] = " "

\* A signed message of the operator in the control channel, 5 minutes old,
\* became a command; channel and allow-list are configured
C39_Witness ==
    /\ webhook.commands # <<>>
    /\ webhook.env.controlChannelId = "C_CONTROL"
    /\ webhook.env.allowedUserIds = {"U_OPERATOR"}
    /\ webhook.req.age = ReplayWindow
    /\ webhook.req.text = <<"!hs", " ", "pause">>
    /\ webhook.commands[1].text = <<"!hs", " ", "pause">>

====
